---- MODULE Spec2Model ----
(***************************************************************************)
(* The OCR ensemble of ol_rag_pipeline_core: the gateway's response        *)
(* parsing (ocr/client.py), the quality assessor (ocr/quality.py) and the  *)
(* consensus run over pages and engines (ocr/ensemble.py); and around it   *)
(* the page rasterizer, the ocr_runs and review_queue repositories, the    *)
(* VPN rotation guard, the chunker and the embedding client.               *)
(*                                                                         *)
(* A text is a sequence of one-character strings.  A float is an exact     *)
(* rational: a similarity is an integer number of 1/SimScale units, a      *)
(* quality ratio is a pair <<numerator, denominator>>.                     *)
(***************************************************************************)
EXTENDS Integers, Sequences, FiniteSets, TLC

VARIABLES
    engines,            \* cfg.engines: the configured engine names, in order
    pages,              \* the pages argument: page numbers, in input order
    gate,               \* cfg.quality_gate
    pc,                 \* position of run_ocr_ensemble
    page_idx,           \* index in pages of the page of the outer loop
    engine_idx,         \* index in engines of the engine of the inner loop
    engine_texts,       \* dict of the current page: sequence of <<key, value>>
    quality_by_engine,  \* dict of the current page: sequence of <<key, value>>
    results,            \* list of OcrPageResult
    overall_ok,         \* the running flag of run_ocr_ensemble
    calls,              \* history: the gateway calls made, in order
    outcome,            \* the OcrEnsembleResult returned, or NoResult
    error,              \* the exception that left run_ocr_ensemble, or NoError
    fn_args,            \* a function called on its own: its name and arguments
    fn_result,          \* what the calls of that function gave, in order
    render,             \* one call of render_pdf_to_png_pages (ocr/pdf_render.py)
    db,                 \* the ocr_runs and review_queue tables and their writers
    vpn,                \* a VpnRotationGuard and the services it talks to (vpn.py)
    embed               \* one call of EmbeddingClient.embed_texts (embedding.py)

run_vars == <<engines, pages, gate, pc, page_idx, engine_idx, engine_texts,
              quality_by_engine, results, overall_ok, calls, outcome, error>>

\* The other components of the package, each idle while another is followed
ext_vars == <<render, db, vpn, embed>>

vars == <<run_vars, fn_args, fn_result, ext_vars>>

Idle == [pc |-> "idle"]

ExtIdle ==
    /\ render = Idle
    /\ db = Idle
    /\ vpn = Idle
    /\ embed = Idle

-----------------------------------------------------------------------------
(* Bounds of the model *)

MaxPages == 2
MaxEngines == 3
MaxCalls == 4
MaxQualityLen == 3

-----------------------------------------------------------------------------
(* Characters and texts *)

Letters == {"a", "b", "c"}
Digits == {"1", "2"}
Whitespace == {" ", "\n", "\t"}
\* a character outside 0x20-0x7E that is no whitespace
NonAscii == {"U+00E9"}

\* _ALPHA_RE = [A-Za-z]
IsAlpha(c) == c \in Letters

\* _PRINTABLE_RE = [\x20-\x7E\n\t]
IsPrintable(c) == c \in Letters \cup Digits \cup {" ", "\n", "\t"}

RECURSIVE LStrip(_)
LStrip(s) ==
    IF s # <<>> /\ Head(s) \in Whitespace THEN LStrip(Tail(s)) ELSE s

RECURSIVE RStrip(_)
RStrip(s) ==
    IF s # <<>> /\ s[Len(s)] \in Whitespace
    THEN RStrip(SubSeq(s, 1, Len(s) - 1))
    ELSE s

\* str.strip()
Strip(s) == RStrip(LStrip(s))

-----------------------------------------------------------------------------
(* ocr/quality.py *)

\* A ratio alpha / max(chars, 1) kept exact
Ratio(n, d) == <<n, d>>
RatioLess(p, q) == p[1] * q[2] < q[1] * p[2]

\* round(x, 4) of a ratio, in units of 1/10000
Round4(p) == (2 * 10000 * p[1] + p[2]) \div (2 * p[2])

Max(x, y) == IF x >= y THEN x ELSE y

\* Mutant: the text is measured as given, without .strip()
assess_ocr_text_quality_NoStrip(text) ==
    LET normalized == text
        chars == Len(normalized)
        alpha == Len(SelectSeq(normalized, IsAlpha))
        printable == Len(SelectSeq(normalized, IsPrintable))
    IN  IF normalized = <<>>
        THEN [chars |-> 0, alpha_chars |-> 0, alpha_ratio |-> Ratio(0, 1),
              printable_ratio |-> Ratio(0, 1), looks_empty |-> TRUE]
        ELSE [chars |-> chars, alpha_chars |-> alpha,
              alpha_ratio |-> Ratio(alpha, Max(chars, 1)),
              printable_ratio |-> Ratio(printable, Max(chars, 1)),
              looks_empty |-> FALSE]

\* Mutant: the printable characters are counted in the text as given, the
\* whitespace around it included
assess_ocr_text_quality_PrintableOfRaw(text) ==
    LET normalized == Strip(text)
        chars == Len(normalized)
        alpha == Len(SelectSeq(normalized, IsAlpha))
        printable == Len(SelectSeq(text, IsPrintable))
    IN  IF normalized = <<>>
        THEN [chars |-> 0, alpha_chars |-> 0, alpha_ratio |-> Ratio(0, 1),
              printable_ratio |-> Ratio(0, 1), looks_empty |-> TRUE]
        ELSE [chars |-> chars, alpha_chars |-> alpha,
              alpha_ratio |-> Ratio(alpha, Max(chars, 1)),
              printable_ratio |-> Ratio(printable, Max(chars, 1)),
              looks_empty |-> FALSE]

assess_ocr_text_quality(text) ==
    LET normalized == Strip(text)
        chars == Len(normalized)
        alpha == Len(SelectSeq(normalized, IsAlpha))
        printable == Len(SelectSeq(normalized, IsPrintable))
    IN  IF normalized = <<>>
        THEN [chars |-> 0, alpha_chars |-> 0, alpha_ratio |-> Ratio(0, 1),
              printable_ratio |-> Ratio(0, 1), looks_empty |-> TRUE]
        ELSE [chars |-> chars, alpha_chars |-> alpha,
              alpha_ratio |-> Ratio(alpha, Max(chars, 1)),
              printable_ratio |-> Ratio(printable, Max(chars, 1)),
              looks_empty |-> FALSE]

\* Mutant: the looks_empty check is left out
passes_quality_gate_NoEmptyCheck(report, g) ==
    IF report.chars < g.min_chars_per_page THEN FALSE
    ELSE IF RatioLess(report.alpha_ratio, g.min_alpha_ratio) THEN FALSE
    ELSE IF RatioLess(report.printable_ratio, g.min_printable_ratio) THEN FALSE
    ELSE TRUE

\* Mutant: the alphabetic ratio is compared the wrong way round
passes_quality_gate_AlphaReversed(report, g) ==
    IF report.looks_empty THEN FALSE
    ELSE IF report.chars < g.min_chars_per_page THEN FALSE
    ELSE IF RatioLess(g.min_alpha_ratio, report.alpha_ratio) THEN FALSE
    ELSE IF RatioLess(report.printable_ratio, g.min_printable_ratio) THEN FALSE
    ELSE TRUE

passes_quality_gate(report, g) ==
    IF report.looks_empty THEN FALSE
    ELSE IF report.chars < g.min_chars_per_page THEN FALSE
    ELSE IF RatioLess(report.alpha_ratio, g.min_alpha_ratio) THEN FALSE
    ELSE IF RatioLess(report.printable_ratio, g.min_printable_ratio) THEN FALSE
    ELSE TRUE

\* The gates a run is configured with: the default ratios with a page
\* minimum that the bounded texts can reach, and the all-zero gate
Gates ==
    { [min_chars_per_page |-> 2, min_alpha_ratio |-> Ratio(1, 10),
       min_printable_ratio |-> Ratio(85, 100)],
      [min_chars_per_page |-> 0, min_alpha_ratio |-> Ratio(0, 1),
       min_printable_ratio |-> Ratio(0, 1)] }

-----------------------------------------------------------------------------
(* ocr/client.py: the response of the backend and its parsing *)

\* Python values of a JSON payload, tagged by type
PyNone == [t |-> "None"]
PyStr(s) == [t |-> "str", v |-> s]
PyInt == [t |-> "int"]
PyDict(fields) == [t |-> "dict", v |-> fields]
PyList(items) == [t |-> "list", v |-> items]

IsStr(x) == x.t = "str"
IsDict(x) == x.t = "dict"
IsList(x) == x.t = "list"

\* dict.get(key): None when the key is absent
Get(d, key) == IF key \in DOMAIN d.v THEN d.v[key] ELSE PyNone

EmptyDict == PyDict(<<>>)

\* The raw strings a backend answers with
Contents ==
    { <<>>,
      <<" ">>,
      <<"a", "b">>,
      <<" ", "a", "b", "\n">>,
      <<"a", "b", "c">>,
      <<"b", "a">>,
      <<"a", "U+00E9">> }

ContentValues == {PyNone, PyInt} \cup {PyStr(c) : c \in Contents}
TextValues == {PyNone, PyInt, PyStr(<<"\t">>), PyStr(<<"b", "a", " ">>)}

\* The contents next to which a choice also carries a "text" field
FallbackContents == {PyNone, PyInt, PyStr(<<>>), PyStr(<<" ">>), PyStr(<<"a", "b">>)}

FirstChoices ==
    {PyInt, EmptyDict}
    \cup {PyDict([message |-> PyDict([content |-> c])]) : c \in ContentValues}
    \cup {PyDict([message |-> PyDict([content |-> c]), text |-> x]) :
             c \in FallbackContents, x \in TextValues}
    \cup {PyDict([message |-> m, text |-> x]) :
             m \in {PyNone, PyStr(<<"a">>), EmptyDict}, x \in {PyNone, PyStr(<<"b", "a", " ">>)}}
    \cup {PyDict([text |-> x]) : x \in TextValues}

ChoicesValues ==
    {PyNone, PyInt, PyList(<<>>)}
    \cup {PyList(<<f>>) : f \in FirstChoices}
    \cup {PyList(<<f, PyDict([text |-> PyStr(<<"c">>)])>>) : f \in {PyInt, EmptyDict}}

Payloads ==
    {EmptyDict} \cup {PyDict([choices |-> c]) : c \in ChoicesValues}

\* What the HTTP exchange of one chat_completion call can give
Responses ==
    {[delivered |-> FALSE, status |-> 0, json_ok |-> FALSE, payload |-> EmptyDict],
     [delivered |-> TRUE, status |-> 500, json_ok |-> TRUE, payload |-> EmptyDict],
     [delivered |-> TRUE, status |-> 200, json_ok |-> FALSE, payload |-> EmptyDict]}
    \cup {[delivered |-> TRUE, status |-> 200, json_ok |-> TRUE, payload |-> p] :
             p \in Payloads}

\* The request attribute of an exception: httpx.HTTPStatusError keeps the
\* request, whose body names the model; the other exceptions have none
NoRequest == [held |-> FALSE]
Request(model) == [held |-> TRUE, model |-> model]

\* An exception: its type, its message and its request attribute; no
\* exception of this code has other fields
Raise(type, message, request) ==
    [raised |-> TRUE, type |-> type, message |-> message, request |-> request]
Return(value) == [raised |-> FALSE, value |-> value]

\* `x or []`
Truthy(x) ==
    CASE x.t = "None" -> FALSE
      [] x.t = "list" -> x.v # <<>>
      [] x.t = "dict" -> DOMAIN x.v # {}
      [] x.t = "str" -> x.v # <<>>
      [] OTHER -> TRUE

\* Mutant: an empty content string is treated as absent, so that the
\* "text" field of the choice is tried after it
_extract_message_content_EmptyFallsBack(payload) ==
    LET got == Get(payload, "choices")
        choices == IF Truthy(got) THEN got ELSE PyList(<<>>)
    IN  IF ~IsList(choices) \/ choices.v = <<>>
        THEN Raise("RuntimeError", "OpenAI response missing choices", NoRequest)
        ELSE
          LET first == IF IsDict(choices.v[1]) THEN choices.v[1] ELSE EmptyDict
              msg == IF IsDict(Get(first, "message"))
                     THEN Get(first, "message") ELSE EmptyDict
              content == Get(msg, "content")
              text == Get(first, "text")
          IN  IF IsStr(content) /\ Strip(content.v) # <<>>
              THEN Return(Strip(content.v))
              ELSE IF IsStr(text) /\ Strip(text.v) # <<>>
              THEN Return(Strip(text.v))
              ELSE Return(<<>>)

\* Mutant: choices[0]["message"]["content"] is read without the isinstance
\* checks, so a first choice of another shape raises
_extract_message_content_Unguarded(payload) ==
    LET got == Get(payload, "choices")
        choices == IF Truthy(got) THEN got ELSE PyList(<<>>)
    IN  IF ~IsList(choices) \/ choices.v = <<>>
        THEN Raise("RuntimeError", "OpenAI response missing choices", NoRequest)
        ELSE IF ~IsDict(choices.v[1])
        THEN Raise("TypeError", "indices must be integers", NoRequest)
        ELSE IF ~IsDict(Get(choices.v[1], "message"))
        THEN Raise("KeyError", "message", NoRequest)
        ELSE
          LET first == choices.v[1]
              msg == Get(first, "message")
              content == Get(msg, "content")
              text == Get(first, "text")
          IN  IF IsStr(content) /\ Strip(content.v) # <<>>
              THEN Return(Strip(content.v))
              ELSE IF IsStr(content)
              THEN Return(<<>>)
              ELSE IF IsStr(text) /\ Strip(text.v) # <<>>
              THEN Return(Strip(text.v))
              ELSE Return(<<>>)

_extract_message_content(payload) ==
    LET got == Get(payload, "choices")
        choices == IF Truthy(got) THEN got ELSE PyList(<<>>)
    IN  IF ~IsList(choices) \/ choices.v = <<>>
        THEN Raise("RuntimeError", "OpenAI response missing choices", NoRequest)
        ELSE
          LET first == IF IsDict(choices.v[1]) THEN choices.v[1] ELSE EmptyDict
              msg == IF IsDict(Get(first, "message"))
                     THEN Get(first, "message") ELSE EmptyDict
              content == Get(msg, "content")
              text == Get(first, "text")
          IN  IF IsStr(content) /\ Strip(content.v) # <<>>
              THEN Return(Strip(content.v))
              ELSE IF IsStr(content)
              THEN Return(<<>>)
              ELSE IF IsStr(text) /\ Strip(text.v) # <<>>
              THEN Return(Strip(text.v))
              ELSE Return(<<>>)

\* OcrEngineSpec.openai_model: "ocr/" + engine
openai_model(engine) == <<"ocr/", engine>>

\* LlmServiceClient.chat_completion on the response r of the POST
chat_completion(model, r) ==
    IF ~r.delivered
    THEN Raise("TransportError", "request failed", Request(model))
    ELSE IF r.status # 200
    THEN Raise("HTTPStatusError", "error status", Request(model))
    ELSE IF ~r.json_ok
    THEN Raise("JSONDecodeError", "Expecting value", NoRequest)
    ELSE _extract_message_content(r.payload)

\* LlmServiceClient.ocr_page
ocr_page(engine, page, r) == chat_completion(openai_model(engine), r)

-----------------------------------------------------------------------------
(* ocr/ensemble.py: similarity and consensus *)

\* Python dicts keep insertion order: a dict is a sequence of <<key, value>>
DictKeys(d) == [i \in 1..Len(d) |-> d[i][1]]
DictHas(d, k) == \E i \in 1..Len(d) : d[i][1] = k
DictGet(d, k) == d[CHOOSE i \in 1..Len(d) : d[i][1] = k][2]
\* d[k] = v
DictSet(d, k, v) ==
    IF DictHas(d, k)
    THEN [i \in 1..Len(d) |-> IF d[i][1] = k THEN <<k, v>> ELSE d[i]]
    ELSE Append(d, <<k, v>>)

\* Engine names and their order as Python strings
NameOrder == <<"a", "b", "c", "d", "e">>
NameRank(n) == CHOOSE i \in 1..Len(NameOrder) : NameOrder[i] = n
EngineNames == {NameOrder[i] : i \in 1..MaxEngines}

\* The longest raw string of Contents, and the unit of the similarities
MaxTextLen == CHOOSE n \in {Len(c) : c \in Contents} : \A c \in Contents : Len(c) <= n

RECURSIVE Gcd(_, _)
Gcd(x, y) == IF y = 0 THEN x ELSE Gcd(y, x % y)

RECURSIVE LcmUpTo(_)
LcmUpTo(n) == IF n <= 1 THEN 1 ELSE (LcmUpTo(n - 1) * n) \div Gcd(LcmUpTo(n - 1), n)

\* Every 2*M/T with T <= 2*MaxTextLen, and every mean of up to MaxEngines of
\* them, is a whole number of 1/SimScale
SimScale == LcmUpTo(2 * MaxTextLen) * LcmUpTo(MaxEngines)

\* The length of the common run of a from i and b from j (1-based), within
\* a[..ahi-1] and b[..bhi-1]
RECURSIVE RunLen(_, _, _, _, _, _)
RunLen(a, b, i, j, ahi, bhi) ==
    IF i < ahi /\ j < bhi /\ a[i] = b[j]
    THEN 1 + RunLen(a, b, i + 1, j + 1, ahi, bhi)
    ELSE 0

\* SequenceMatcher.find_longest_match(alo, ahi, blo, bhi) without junk: the
\* longest block, of those the one starting earliest in a, of those the one
\* starting earliest in b; <<alo, blo, 0>> when nothing matches
find_longest_match(a, b, alo, ahi, blo, bhi) ==
    LET Blocks == {<<i, j, RunLen(a, b, i, j, ahi, bhi)>> :
                      i \in alo..(ahi - 1), j \in blo..(bhi - 1)}
        Found == {m \in Blocks : m[3] > 0}
        Better(m, n) == \/ m[3] > n[3]
                        \/ m[3] = n[3] /\ m[1] < n[1]
                        \/ m[3] = n[3] /\ m[1] = n[1] /\ m[2] < n[2]
    IN  IF Found = {} THEN <<alo, blo, 0>>
        ELSE CHOOSE m \in Found : \A n \in Found \ {m} : Better(m, n)

RECURSIVE matching_size(_, _, _, _, _, _)

\* The size of the block m and of the blocks to its left and to its right
BlocksAround(a, b, alo, ahi, blo, bhi, m) ==
    IF m[3] = 0 THEN 0
    ELSE m[3]
         + (IF alo < m[1] /\ blo < m[2]
            THEN matching_size(a, b, alo, m[1], blo, m[2]) ELSE 0)
         + (IF m[1] + m[3] < ahi /\ m[2] + m[3] < bhi
            THEN matching_size(a, b, m[1] + m[3], ahi, m[2] + m[3], bhi) ELSE 0)

\* The sum of the sizes of SequenceMatcher.get_matching_blocks()
matching_size(a, b, alo, ahi, blo, bhi) ==
    BlocksAround(a, b, alo, ahi, blo, bhi, find_longest_match(a, b, alo, ahi, blo, bhi))

\* difflib.SequenceMatcher(a=a, b=b).ratio(), in units of 1/SimScale
_similarity(a, b) ==
    LET length == Len(a) + Len(b)
        matches == matching_size(a, b, 1, Len(a) + 1, 1, Len(b) + 1)
    IN  IF length > 0 THEN (2 * matches * SimScale) \div length ELSE SimScale

\* Mutant: each similarity is stored under the earlier engine only
Pairwise_OneDirection(candidates) ==
    LET keys == DictKeys(candidates)
        Pos(e) == CHOOSE i \in 1..Len(keys) : keys[i] = e
        K == {keys[i] : i \in 1..Len(keys)}
    IN  [a \in K |->
            [b \in {x \in K : Pos(a) < Pos(x)} |->
                _similarity(DictGet(candidates, a), DictGet(candidates, b))]]

\* The pairwise dict built by the double loop over engines[i], engines[i+1:]
Pairwise(candidates) ==
    LET keys == DictKeys(candidates)
        Pos(e) == CHOOSE i \in 1..Len(keys) : keys[i] = e
        K == {keys[i] : i \in 1..Len(keys)}
    IN  [a \in K |->
            [b \in K \ {a} |->
                IF Pos(a) < Pos(b)
                THEN _similarity(DictGet(candidates, a), DictGet(candidates, b))
                ELSE _similarity(DictGet(candidates, b), DictGet(candidates, a))]]

RECURSIVE SumOver(_, _)
SumOver(f, S) ==
    IF S = {} THEN 0
    ELSE LET x == CHOOSE y \in S : TRUE IN f[x] + SumOver(f, S \ {x})

\* The entry (avg, len(candidates[e]), e) of scored
ScoredEntry(candidates, pairwise, e) ==
    LET sims == pairwise[e]
        n == Cardinality(DOMAIN sims)
    IN  <<SumOver(sims, DOMAIN sims) \div Max(n, 1), Len(DictGet(candidates, e)), e>>

\* Mutant: the text length is left out of the sort key
TupleLess_NoLength(x, y) ==
    \/ x[1] < y[1]
    \/ x[1] = y[1] /\ NameRank(x[3]) < NameRank(y[3])

\* Python's order on the tuples (float, int, str)
TupleLess(x, y) ==
    \/ x[1] < y[1]
    \/ x[1] = y[1] /\ x[2] < y[2]
    \/ x[1] = y[1] /\ x[2] = y[2] /\ NameRank(x[3]) < NameRank(y[3])

\* Mutant: scored.sort() without reverse=True
SortedFirst_Ascending(scored) ==
    CHOOSE x \in scored : \A y \in scored : ~TupleLess(y, x)

\* scored.sort(reverse=True); scored[0]
SortedFirst(scored) ==
    CHOOSE x \in scored : \A y \in scored : ~TupleLess(x, y)

\* Mutant: the text returned is the first engine's, whoever wins
_choose_consensus_FirstText(candidates) ==
    LET keys == DictKeys(candidates)
    IN  IF Len(keys) = 0
        THEN Raise("ValueError", "No OCR candidates provided", NoRequest)
        ELSE IF Len(keys) = 1
        THEN Return(<<DictGet(candidates, keys[1]),
                      [winner |-> keys[1], pairwise_similarity |-> <<>>]>>)
        ELSE
          LET pairwise == Pairwise(candidates)
              scored == {ScoredEntry(candidates, pairwise, keys[i]) : i \in 1..Len(keys)}
              top == SortedFirst(scored)
          IN  Return(<<DictGet(candidates, keys[1]),
                       [winner |-> top[3], avg_similarity |-> top[1],
                        pairwise_similarity |-> pairwise]>>)

\* Mutant: a single engine is not returned early and goes through the scoring
_choose_consensus_NoSingleCase(candidates) ==
    LET keys == DictKeys(candidates)
    IN  IF Len(keys) = 0
        THEN Raise("ValueError", "No OCR candidates provided", NoRequest)
        ELSE
          LET pairwise == Pairwise(candidates)
              scored == {ScoredEntry(candidates, pairwise, keys[i]) : i \in 1..Len(keys)}
              top == SortedFirst(scored)
          IN  Return(<<DictGet(candidates, top[3]),
                       [winner |-> top[3], avg_similarity |-> top[1],
                        pairwise_similarity |-> pairwise]>>)

_choose_consensus(candidates) ==
    LET keys == DictKeys(candidates)
    IN  IF Len(keys) = 0
        THEN Raise("ValueError", "No OCR candidates provided", NoRequest)
        ELSE IF Len(keys) = 1
        THEN Return(<<DictGet(candidates, keys[1]),
                      [winner |-> keys[1], pairwise_similarity |-> <<>>]>>)
        ELSE
          LET pairwise == Pairwise(candidates)
              scored == {ScoredEntry(candidates, pairwise, keys[i]) : i \in 1..Len(keys)}
              top == SortedFirst(scored)
          IN  Return(<<DictGet(candidates, top[3]),
                       [winner |-> top[3], avg_similarity |-> top[1],
                        pairwise_similarity |-> pairwise]>>)

-----------------------------------------------------------------------------
(* ocr/ensemble.py: run_ocr_ensemble *)

NoResult == [returned |-> FALSE]
NoError == [raised |-> FALSE]

\* The first n engine names listed in alphabetic order and in reverse order
Orders(n) ==
    {[i \in 1..n |-> NameOrder[i]], [i \in 1..n |-> NameOrder[n + 1 - i]]}

\* A list that names the same engine twice
Repeated == {<<NameOrder[1], NameOrder[1]>>}

\* cfg.engines: engines are identified by their names; the empty list and a
\* list with a repeated engine included
EngineConfigs == UNION {Orders(n) : n \in 0..MaxEngines} \cup Repeated

\* No function is called on its own while run_ocr_ensemble runs
NoCall == [fn |-> "none"]

\* pages: 1-based page numbers in any order
PageInputs ==
    UNION {{s \in [1..n -> 1..n] : \A i, j \in 1..n : i # j => s[i] # s[j]} :
              n \in 0..MaxPages}

Init ==
    /\ engines \in EngineConfigs
    /\ pages \in PageInputs
    /\ Len(pages) * Len(engines) <= MaxCalls
    /\ gate \in Gates
    /\ pc = "start"
    /\ page_idx = 1
    /\ engine_idx = 1
    /\ engine_texts = <<>>
    /\ quality_by_engine = <<>>
    /\ results = <<>>
    /\ overall_ok = TRUE
    /\ calls = <<>>
    /\ outcome = NoResult
    /\ error = NoError
    /\ fn_args = NoCall
    /\ fn_result = <<>>
    /\ ExtIdle

\* Where the loops of run_ocr_ensemble stand when page p (an index) is next
LoopAt(p) ==
    IF p > Len(pages) THEN "merge"
    ELSE IF Len(engines) = 0 THEN "consensus"
    ELSE "call"

\* Mutant: the check of cfg.engines is left out
EnginesEmpty_Unchecked == FALSE

\* `not cfg.engines`
EnginesEmpty == engines = <<>>

\* `if not cfg.engines: raise ValueError(...)`
RejectEmptyEngines ==
    /\ pc = "start"
    /\ EnginesEmpty
    /\ pc' = "raised"
    /\ error' = Raise("ValueError", "cfg.engines must not be empty", NoRequest)
    /\ UNCHANGED <<ext_vars, fn_args, fn_result, engines, pages, gate, page_idx, engine_idx, engine_texts,
                   quality_by_engine, results, overall_ok, calls, outcome>>

\* results = []; overall_ok = True; entering the loop over pages
StartRun ==
    /\ pc = "start"
    /\ ~EnginesEmpty
    /\ results' = <<>>
    /\ overall_ok' = TRUE
    /\ page_idx' = 1
    /\ engine_idx' = 1
    /\ engine_texts' = <<>>
    /\ quality_by_engine' = <<>>
    /\ pc' = LoopAt(1)
    /\ UNCHANGED <<ext_vars, fn_args, fn_result, engines, pages, gate, calls, outcome, error>>

\* The entry of quality_by_engine for a text
QualityEntry(text) ==
    LET q == assess_ocr_text_quality(text)
    IN  [chars |-> q.chars,
         alpha_ratio |-> Round4(q.alpha_ratio),
         printable_ratio |-> Round4(q.printable_ratio)]

CallRecord == [page_idx |-> page_idx, page_number |-> pages[page_idx],
               engine_idx |-> engine_idx, engine |-> engines[engine_idx]]

\* The call that has returned, with the text it returned
ReturnedCall(text) ==
    [page_idx |-> page_idx, page_number |-> pages[page_idx],
     engine_idx |-> engine_idx, engine |-> engines[engine_idx], text |-> text]

\* Mutant: the loop over cfg.engines ends after its first iteration
AfterEngine_Break == "consensus"

\* Where the loop over cfg.engines stands after the iteration of engine_idx
AfterEngine == IF engine_idx >= Len(engines) THEN "consensus" ELSE "call"

\* One iteration of `for engine in cfg.engines` whose client.ocr_page returns
OcrPageReturns ==
    /\ pc = "call"
    /\ engine_idx <= Len(engines)
    /\ \E r \in Responses :
         LET res == ocr_page(engines[engine_idx], pages[page_idx], r)
         IN  /\ ~res.raised
             /\ engine_texts' = DictSet(engine_texts, engines[engine_idx], res.value)
             /\ quality_by_engine' =
                  DictSet(quality_by_engine, engines[engine_idx], QualityEntry(res.value))
             /\ calls' = Append(calls, ReturnedCall(res.value))
    /\ engine_idx' = engine_idx + 1
    /\ pc' = AfterEngine
    /\ UNCHANGED <<ext_vars, fn_args, fn_result, engines, pages, gate, page_idx, results, overall_ok, outcome, error>>

\* Mutant: the exception of client.ocr_page is caught, the engine's text is
\* taken as empty and the loop goes on
OcrPageRaises_Swallowed ==
    /\ pc = "call"
    /\ engine_idx <= Len(engines)
    /\ \E r \in Responses :
         LET res == ocr_page(engines[engine_idx], pages[page_idx], r)
         IN  /\ res.raised
             /\ error' = res
    /\ engine_texts' = DictSet(engine_texts, engines[engine_idx], <<>>)
    /\ quality_by_engine' =
         DictSet(quality_by_engine, engines[engine_idx], QualityEntry(<<>>))
    /\ calls' = Append(calls, CallRecord)
    /\ engine_idx' = engine_idx + 1
    /\ pc' = AfterEngine
    /\ UNCHANGED <<ext_vars, fn_args, fn_result, engines, pages, gate, page_idx, results, overall_ok, outcome>>

\* One iteration of `for engine in cfg.engines` whose client.ocr_page raises:
\* nothing catches the exception, it leaves run_ocr_ensemble
OcrPageRaises ==
    /\ pc = "call"
    /\ engine_idx <= Len(engines)
    /\ \E r \in Responses :
         LET res == ocr_page(engines[engine_idx], pages[page_idx], r)
         IN  /\ res.raised
             /\ error' = res
    /\ calls' = Append(calls, CallRecord)
    /\ pc' = "raised"
    /\ UNCHANGED <<ext_vars, fn_args, fn_result, engines, pages, gate, page_idx, engine_idx, engine_texts,
                   quality_by_engine, results, overall_ok, outcome>>

\* Mutant: overall_ok = passed, the last page decides
NextOverallOk_LastPage(ok, passed) == passed

\* `if not passed: overall_ok = False`
NextOverallOk(ok, passed) == IF ~passed THEN FALSE ELSE ok

\* Mutant: the page passes only if every engine's text passes the gate
PageResult_GateOnEveryEngine(page_number, texts, quality, g) ==
    LET chosen == _choose_consensus(texts)
        consensus_text == chosen.value[1]
        consensus_meta == chosen.value[2]
        passed == \A i \in 1..Len(texts) :
                      passes_quality_gate(assess_ocr_text_quality(texts[i][2]), g)
    IN  [page_number |-> page_number,
         consensus_text |-> consensus_text,
         engine_texts |-> texts,
         quality_by_engine |-> quality,
         consensus_meta |-> consensus_meta,
         passed_gate |-> passed]

\* The OcrPageResult of a page from what its engines returned
PageResult(page_number, texts, quality, g) ==
    LET chosen == _choose_consensus(texts)
        consensus_text == chosen.value[1]
        consensus_meta == chosen.value[2]
        q_consensus == assess_ocr_text_quality(consensus_text)
        passed == passes_quality_gate(q_consensus, g)
    IN  [page_number |-> page_number,
         consensus_text |-> consensus_text,
         engine_texts |-> texts,
         quality_by_engine |-> quality,
         consensus_meta |-> consensus_meta,
         passed_gate |-> passed]

\* Mutant: the loop over pages is left once a page has failed the gate
AfterPage_StopAtFailedGate(p) ==
    IF ~overall_ok' THEN "merge" ELSE LoopAt(p + 1)

\* After results.append the outer loop goes on to the next page, whatever
\* the gate said of page p (an index)
AfterPage(p) == LoopAt(p + 1)

\* The rest of the page's iteration: consensus, gate, results.append
PageConsensus ==
    /\ pc = "consensus"
    /\ IF _choose_consensus(engine_texts).raised
       THEN /\ error' = _choose_consensus(engine_texts)
            /\ pc' = "raised"
            /\ UNCHANGED <<page_idx, engine_idx, engine_texts, quality_by_engine,
                           results, overall_ok>>
       ELSE LET r == PageResult(pages[page_idx], engine_texts, quality_by_engine, gate)
            IN  /\ overall_ok' = NextOverallOk(overall_ok, r.passed_gate)
                /\ results' = Append(results, r)
                /\ page_idx' = page_idx + 1
                /\ engine_idx' = 1
                /\ engine_texts' = <<>>
                /\ quality_by_engine' = <<>>
                /\ pc' = AfterPage(page_idx)
                /\ error' = error
    /\ UNCHANGED <<ext_vars, fn_args, fn_result, engines, pages, gate, calls, outcome>>

\* f"\n\n--- PAGE {n} ---\n\n": the marker's words are single tokens of the text
PageMarker(n) == <<"\n", "\n", "--- PAGE ", ToString(n), " ---", "\n", "\n">>

\* "".join(merged_lines) over results[i..]
RECURSIVE JoinPages(_, _)
JoinPages(rs, i) ==
    IF i > Len(rs) THEN <<>>
    ELSE PageMarker(rs[i].page_number) \o Strip(rs[i].consensus_text)
         \o JoinPages(rs, i + 1)

\* Mutant: the joined text is not stripped before the newline is added
MergedText_NoStrip(rs) == Append(JoinPages(rs, 1), "\n")

\* merged = "".join(merged_lines).strip() + "\n"
MergedText(rs) == Append(Strip(JoinPages(rs, 1)), "\n")

\* The merge after the loop and the return
Merge ==
    /\ pc = "merge"
    /\ outcome' = [returned |-> TRUE, pages |-> results,
                   merged_text |-> MergedText(results),
                   overall_passed |-> overall_ok]
    /\ pc' = "done"
    /\ UNCHANGED <<ext_vars, fn_args, fn_result, engines, pages, gate, page_idx, engine_idx, engine_texts,
                   quality_by_engine, results, overall_ok, calls, error>>

Next ==
    \/ RejectEmptyEngines
    \/ StartRun
    \/ OcrPageReturns
    \/ OcrPageRaises
    \/ PageConsensus
    \/ Merge

Spec == Init /\ [][Next]_vars

-----------------------------------------------------------------------------
(* A function of the package called on its own *)

\* OcrQualityGate(): the defaults of the dataclass
DefaultGate ==
    [min_chars_per_page |-> 40, min_alpha_ratio |-> Ratio(10, 100),
     min_printable_ratio |-> Ratio(85, 100)]

\* run_ocr_ensemble is not running
IdleRun ==
    /\ engines = <<>>
    /\ pages = <<>>
    /\ gate = DefaultGate
    /\ pc = "idle"
    /\ page_idx = 1
    /\ engine_idx = 1
    /\ engine_texts = <<>>
    /\ quality_by_engine = <<>>
    /\ results = <<>>
    /\ overall_ok = TRUE
    /\ calls = <<>>
    /\ outcome = NoResult
    /\ error = NoError

-----------------------------------------------------------------------------
(* ocr/client.py: _extract_message_content on every shape of payload *)

ParseTextValues == TextValues \cup {PyStr(<<>>), PyStr(<<"c">>)}

ParsePayloads ==
    Payloads
    \cup {PyDict([choices |-> PyList(<<PyDict([message |-> PyDict([content |-> c]),
                                              text |-> x])>>)]) :
             c \in ContentValues, x \in ParseTextValues}
    \cup {PyDict([choices |-> PyList(<<PyDict([message |-> PyDict([content |-> c])]),
                                       PyDict([message |-> PyDict([content |-> PyStr(<<"c">>)]),
                                               text |-> PyStr(<<"c">>)])>>)]) :
             c \in {PyNone, PyStr(<<>>)}}

ParseInit ==
    /\ IdleRun
    /\ ExtIdle
    /\ fn_args \in {[fn |-> "_extract_message_content", payload |-> p] :
                       p \in ParsePayloads}
    /\ fn_result = <<>>

\* r.json() is handed to _extract_message_content
Parse ==
    /\ fn_args.fn = "_extract_message_content"
    /\ fn_result = <<>>
    /\ fn_result' = <<_extract_message_content(fn_args.payload)>>
    /\ UNCHANGED <<ext_vars, run_vars, fn_args>>

ParseNext == Parse

SpecParse == ParseInit /\ [][ParseNext]_vars

-----------------------------------------------------------------------------
(* ocr/quality.py: a text assessed and its report put to gates *)

\* A letter, a digit, a whitespace character and a character that is not
\* printable ASCII
QualityChars == {"a", "1", " ", "U+00E9"}

QualityTexts == UNION {[1..n -> QualityChars] : n \in 0..MaxQualityLen}

\* OcrQualityGate(min_chars_per_page, min_alpha_ratio, min_printable_ratio)
QualityGates ==
    {[min_chars_per_page |-> c, min_alpha_ratio |-> a, min_printable_ratio |-> p] :
        c \in {0, 2, 40},
        a \in {Ratio(0, 1), Ratio(10, 100), Ratio(1, 2)},
        p \in {Ratio(0, 1), Ratio(85, 100)}}

QualityInit ==
    /\ IdleRun
    /\ ExtIdle
    /\ fn_args \in {[fn |-> "quality", text |-> t, gate |-> g] :
                       t \in QualityTexts, g \in QualityGates}
    /\ fn_result = <<>>

\* report = assess_ocr_text_quality(text)
Assess ==
    /\ fn_args.fn = "quality"
    /\ fn_result = <<>>
    /\ fn_result' = <<assess_ocr_text_quality(fn_args.text)>>
    /\ UNCHANGED <<ext_vars, run_vars, fn_args>>

\* passes_quality_gate(report, gate)
PassesGate ==
    /\ fn_args.fn = "quality"
    /\ Len(fn_result) = 1
    /\ fn_result' = Append(fn_result,
                           [gate |-> fn_args.gate,
                            passed |-> passes_quality_gate(fn_result[1], fn_args.gate)])
    /\ UNCHANGED <<ext_vars, run_vars, fn_args>>

\* passes_quality_gate(report, g) of the same report with another gate
PassesOtherGate ==
    /\ fn_args.fn = "quality"
    /\ Len(fn_result) = 2
    /\ \E g \in QualityGates :
         fn_result' = Append(fn_result,
                             [gate |-> g,
                              passed |-> passes_quality_gate(fn_result[1], g)])
    /\ UNCHANGED <<ext_vars, run_vars, fn_args>>

QualityNext ==
    \/ Assess
    \/ PassesGate
    \/ PassesOtherGate

SpecQuality == QualityInit /\ [][QualityNext]_vars

-----------------------------------------------------------------------------
(* Properties *)

\* Every OcrPageResult built so far, and those of the result returned
PageResultsSeen ==
    {results[i] : i \in 1..Len(results)}
    \cup (IF outcome.returned
          THEN {outcome.pages[i] : i \in 1..Len(outcome.pages)} ELSE {})

\* The names of the engines of a page result, in configured order
EnginesOf(r) == DictKeys(r.engine_texts)
EngineSetOf(r) == {EnginesOf(r)[i] : i \in 1..Len(EnginesOf(r))}
TextOf(r, e) == DictGet(r.engine_texts, e)
PosOf(r, e) == CHOOSE i \in 1..Len(EnginesOf(r)) : EnginesOf(r)[i] = e

\* The similarity of two engines' texts of a page, the earlier engine's first
SimilarityOf(r, e, b) ==
    IF PosOf(r, e) < PosOf(r, b)
    THEN _similarity(TextOf(r, e), TextOf(r, b))
    ELSE _similarity(TextOf(r, b), TextOf(r, e))

RECURSIVE SumSimilarity(_, _, _)
SumSimilarity(r, e, others) ==
    IF others = {} THEN 0
    ELSE LET b == CHOOSE x \in others : TRUE
         IN  SimilarityOf(r, e, b) + SumSimilarity(r, e, others \ {b})

\* n - 1 times the mean similarity of engine e to the other engines of the page
\* (every engine of a page has the same number of others)
TotalSimilarity(r, e) == SumSimilarity(r, e, EngineSetOf(r) \ {e})

\* The pairs <<engine, total>> of the page
Totals(r) == {<<e, TotalSimilarity(r, e)>> : e \in EngineSetOf(r)}

\* C1: on every page of every result, consensus_text is verbatim the text of
\* one engine of the page: it is engine_texts[consensus_meta.winner]
C1_ConsensusIsWinnersText ==
    \A r \in PageResultsSeen :
        /\ r.consensus_meta.winner \in EngineSetOf(r)
        /\ r.consensus_text = TextOf(r, r.consensus_meta.winner)

\* A returned page whose winner is not the first engine and whose text differs
\* from the first engine's
C1_Witness ==
    /\ outcome.returned
    /\ \E i \in 1..Len(outcome.pages) :
         LET r == outcome.pages[i]
         IN  /\ Len(r.engine_texts) >= 2
             /\ r.consensus_meta.winner # EnginesOf(r)[1]
             /\ r.consensus_text # TextOf(r, EnginesOf(r)[1])
             /\ r.consensus_text # <<>>

\* C2: overall_passed of a returned result is the AND of passed_gate over its
\* pages, and a run over zero pages returns pages == []
C2_OverallIsAndOfPages ==
    outcome.returned =>
        /\ outcome.overall_passed =
             (\A i \in 1..Len(outcome.pages) : outcome.pages[i].passed_gate)
        /\ (~outcome.overall_passed) =
             (\E i \in 1..Len(outcome.pages) : ~outcome.pages[i].passed_gate)
        /\ (pages = <<>> => outcome.pages = <<>>)

\* A returned result whose first page failed the gate and whose last page passed
C2_Witness ==
    /\ outcome.returned
    /\ Len(outcome.pages) = 2
    /\ ~outcome.pages[1].passed_gate
    /\ outcome.pages[2].passed_gate
    /\ ~outcome.overall_passed

\* C3: with two or more engines the winner's mean similarity to the other
\* engines is maximal among the engines, and avg_similarity is that mean
C3_WinnerHasMaximalMean ==
    \A r \in PageResultsSeen :
        Len(r.engine_texts) >= 2 =>
            LET w == r.consensus_meta.winner
                n == Len(r.engine_texts)
                totals == Totals(r)
            IN  /\ <<w, r.consensus_meta.avg_similarity * (n - 1)>> \in totals
                /\ \A t \in totals : t[2] <= r.consensus_meta.avg_similarity * (n - 1)

\* A page of three engines whose winner has a strictly higher mean than the
\* others although another engine's text is longer and its name greater
C3_Witness ==
    \E r \in PageResultsSeen :
        /\ Len(r.engine_texts) = 3
        /\ LET w == r.consensus_meta.winner
               totals == Totals(r)
           IN  /\ \A t \in totals : t[1] # w => \E u \in totals : u[1] = w /\ t[2] < u[2]
               /\ \E e \in EngineSetOf(r) :
                     /\ Len(TextOf(r, e)) > Len(TextOf(r, w))
                     /\ NameRank(e) > NameRank(w)

\* The engines of a page whose mean similarity is the highest
TopEngines(r) ==
    LET totals == Totals(r)
    IN  {t[1] : t \in {u \in totals : \A o \in totals : o[2] <= u[2]}}

\* The position of an engine in cfg.engines
ConfigPos(e) == CHOOSE i \in 1..Len(engines) : engines[i] = e

\* C4: when several engines tie on the highest mean similarity and their raw
\* texts have equal length, the winner is the tied engine listed first in
\* cfg.engines
C4_TieGoesToFirstListed ==
    \A r \in PageResultsSeen :
        LET top == TopEngines(r)
        IN  (/\ Len(r.engine_texts) >= 2
             /\ Cardinality(top) >= 2
             /\ \A e, b \in top : Len(TextOf(r, e)) = Len(TextOf(r, b)))
            => /\ r.consensus_meta.winner \in top
               /\ \A e \in top : ConfigPos(r.consensus_meta.winner) <= ConfigPos(e)

\* C5: when several engines tie on the highest mean similarity and their raw
\* texts differ in length, the winner is a tied engine with the longest text;
\* with two engines the consensus is never the shorter text
C5_TieGoesToLongestText ==
    \A r \in PageResultsSeen :
        Len(r.engine_texts) >= 2 =>
            /\ LET top == TopEngines(r)
               IN  /\ r.consensus_meta.winner \in top
                   /\ \A e \in top :
                         Len(TextOf(r, e)) <= Len(TextOf(r, r.consensus_meta.winner))
            /\ (Len(r.engine_texts) = 2 =>
                  \A e \in EngineSetOf(r) : Len(TextOf(r, e)) <= Len(r.consensus_text))

\* A page of two engines where the first listed, of the lesser name, has the
\* longer text and wins
C5_Witness ==
    \E r \in PageResultsSeen :
        /\ Len(r.engine_texts) = 2
        /\ Cardinality(TopEngines(r)) = 2
        /\ LET w == r.consensus_meta.winner
               o == CHOOSE e \in EngineSetOf(r) : e # w
           IN  /\ Len(TextOf(r, w)) > Len(TextOf(r, o))
               /\ NameRank(w) < NameRank(o)
               /\ TextOf(r, o) # <<>>

\* C6: passed_gate of a page is passes_quality_gate of the report of its
\* consensus text under the configured gate, so two pages that agree on the
\* consensus text agree on passed_gate whatever else they hold
C6_GateIsFunctionOfConsensusText ==
    /\ \A r \in PageResultsSeen :
          r.passed_gate =
            passes_quality_gate(assess_ocr_text_quality(r.consensus_text), gate)
    /\ \A r1, r2 \in PageResultsSeen :
          r1.consensus_text = r2.consensus_text => r1.passed_gate = r2.passed_gate

\* Two pages of a run with the same consensus text that passes, one of them
\* with a losing engine whose own text fails the gate
C6_Witness ==
    \E r1, r2 \in PageResultsSeen :
        /\ r1.page_number # r2.page_number
        /\ r1.consensus_text = r2.consensus_text
        /\ r1.engine_texts # r2.engine_texts
        /\ r1.quality_by_engine # r2.quality_by_engine
        /\ r1.passed_gate /\ r2.passed_gate
        /\ \E e \in EngineSetOf(r2) :
              ~passes_quality_gate(assess_ocr_text_quality(TextOf(r2, e)), gate)

\* An exception of a gateway call has left run_ocr_ensemble
EngineCallFailed ==
    /\ error.raised
    /\ error.type \in {"TransportError", "HTTPStatusError", "JSONDecodeError", "RuntimeError"}

\* C7: once a gateway call has failed the run has ended with that failure:
\* nothing is returned, the failing call is the last call made, the pages
\* completed before it are not returned, and no step of the run follows
C7_FailureEndsRun ==
    EngineCallFailed =>
        /\ pc = "raised"
        /\ ~outcome.returned
        /\ Len(calls) = (page_idx - 1) * Len(engines) + engine_idx
        /\ calls[Len(calls)].page_idx = page_idx
        /\ calls[Len(calls)].engine_idx = engine_idx
        /\ Len(results) = page_idx - 1
        /\ ~ENABLED Next

\* The first engine of two fails on the second page, after a completed page
C7_Witness ==
    /\ EngineCallFailed
    /\ Len(pages) = 2
    /\ Len(engines) = 2
    /\ Len(results) = 1
    /\ engine_idx = 1

\* C8: the error of a failed engine call carries the name of the engine that
\* failed and the number of the page it was called for
C8_FailureCarriesEngineAndPage ==
    EngineCallFailed =>
        /\ error.request.held
        /\ error.request.model = openai_model(engines[engine_idx])
        /\ "page_number" \in DOMAIN error
        /\ error.page_number = pages[page_idx]

\* C9: with an empty engine list the run fails with the ValueError of the
\* configuration check, before any page is processed or any gateway call made
C9_EmptyEnginesRejectedFirst ==
    engines = <<>> =>
        \/ /\ pc = "start"
           /\ ENABLED RejectEmptyEngines
           /\ ~ENABLED StartRun
        \/ /\ pc = "raised"
           /\ error.raised
           /\ error.type = "ValueError"
           /\ error.message = "cfg.engines must not be empty"
           /\ calls = <<>>
           /\ results = <<>>
           /\ ~outcome.returned

\* The run over two pages with no engine has been rejected
C9_Witness ==
    /\ engines = <<>>
    /\ Len(pages) = 2
    /\ pc = "raised"

\* The k-th gateway call of a run: pages in input order, within a page the
\* engines in configured order
ExpectedCall(k) ==
    LET p == ((k - 1) \div Len(engines)) + 1
        e == ((k - 1) % Len(engines)) + 1
    IN  [page_idx |-> p, page_number |-> pages[p],
         engine_idx |-> e, engine |-> engines[e]]

\* C10: the gateway calls are made page by page in input order and, within a
\* page, engine by engine in configured order; a run that completes has made
\* exactly one call for every (page, engine) pair
C10_CallsInOrderOncePerPair ==
    /\ \A k \in 1..Len(calls) :
          \A f \in DOMAIN ExpectedCall(k) :
              f \in DOMAIN calls[k] /\ calls[k][f] = ExpectedCall(k)[f]
    /\ (outcome.returned => Len(calls) = Len(pages) * Len(engines))
    /\ (outcome.returned =>
          \A p \in 1..Len(pages) : \A e \in 1..Len(engines) :
              Cardinality({k \in 1..Len(calls) :
                              calls[k].page_idx = p /\ calls[k].engine_idx = e}) = 1)

\* A completed run over two pages given out of numeric order and two engines
\* configured out of alphabetic order
C10_Witness ==
    /\ outcome.returned
    /\ pages = <<2, 1>>
    /\ engines = <<"b", "a">>
    /\ Len(calls) = 4

\* C11: a run in which no engine call fails returns with exactly one page
\* result per input page, in input order and never re-sorted by page number;
\* a page that fails the gate neither stops the run nor raises.
C11_OnePageResultPerInputPage ==
    /\ Len(results) <= Len(pages)
    /\ \A i \in 1..Len(results) : results[i].page_number = pages[i]
    /\ outcome.returned =>
          /\ Len(outcome.pages) = Len(pages)
          /\ \A i \in 1..Len(pages) : outcome.pages[i].page_number = pages[i]
    /\ pc = "raised" => (EngineCallFailed \/ engines = <<>>)
    /\ pc = "done" => outcome.returned
    /\ pc \in {"call", "consensus"} => page_idx <= Len(pages)
    /\ pc = "call" => engine_idx <= Len(engines)
    /\ pc = "consensus" => engine_texts # <<>>

C11_Witness ==
    /\ outcome.returned
    /\ pages = <<2, 1>>
    /\ ~outcome.pages[1].passed_gate
    /\ outcome.pages[2].passed_gate
    /\ outcome.pages[1].page_number = 2

-----------------------------------------------------------------------------
(* Properties of _extract_message_content *)

AllChars == Letters \cup Digits \cup Whitespace \cup NonAscii

\* _extract_message_content has returned or raised
Parsed == fn_args.fn = "_extract_message_content" /\ fn_result # <<>>

\* The payload has a non-empty list of choices
HasChoices(p) ==
    /\ IsDict(p)
    /\ "choices" \in DOMAIN p.v
    /\ IsList(p.v.choices)
    /\ p.v.choices.v # <<>>

\* The "message"."content" and the "text" of the first choice, None when
\* the choice has none
ChoiceField(p, key) ==
    LET f == p.v.choices.v[1]
    IN  IF IsDict(f) /\ key \in DOMAIN f.v THEN f.v[key] ELSE PyNone
ChoiceContent(p) ==
    LET m == ChoiceField(p, "message")
    IN  IF IsDict(m) /\ "content" \in DOMAIN m.v THEN m.v.content ELSE PyNone
ChoiceText(p) == ChoiceField(p, "text")

\* The string without its leading and trailing whitespace, by the positions
\* of its first and last character that is no whitespace
Trimmed(s) ==
    LET keep == {i \in 1..Len(s) : s[i] \notin Whitespace}
    IN  IF keep = {} THEN <<>>
        ELSE SubSeq(s, CHOOSE i \in keep : \A j \in keep : i <= j,
                       CHOOSE i \in keep : \A j \in keep : i >= j)

\* C12 as stated: the content when present and non-empty, otherwise (content
\* absent or empty) the "text" of the first choice when a non-empty string,
\* otherwise the empty string.
C12_ContentElseTextElseEmpty ==
    (Parsed /\ HasChoices(fn_args.payload)) =>
        LET content == ChoiceContent(fn_args.payload)
            text == ChoiceText(fn_args.payload)
        IN  IF IsStr(content) /\ content.v # <<>>
            THEN fn_result[1] = Return(content.v)
            ELSE IF IsStr(text) /\ text.v # <<>>
            THEN fn_result[1] = Return(text.v)
            ELSE fn_result[1] = Return(<<>>)

\* C12 amended: a content that is a string is returned trimmed, also when
\* that leaves the empty string, and the "text" of the first choice is not
\* looked at; only when the content is absent or no string is the "text"
\* returned, trimmed, when it is a string; otherwise the empty string.
C12_StringContentElseText ==
    (Parsed /\ HasChoices(fn_args.payload)) =>
        LET content == ChoiceContent(fn_args.payload)
            text == ChoiceText(fn_args.payload)
        IN  IF IsStr(content)
            THEN fn_result[1] = Return(Trimmed(content.v))
            ELSE IF IsStr(text)
            THEN fn_result[1] = Return(Trimmed(text.v))
            ELSE fn_result[1] = Return(<<>>)

C12_Witness ==
    /\ Parsed
    /\ HasChoices(fn_args.payload)
    /\ ChoiceContent(fn_args.payload) = PyStr(<<>>)
    /\ ChoiceText(fn_args.payload) = PyStr(<<"b", "a", " ">>)
    /\ fn_result[1] = Return(<<>>)

\* C13: for every payload whose choices list is not empty, whatever the
\* first choice is, parsing returns a string and does not raise; without a
\* usable content or text that string is the empty string.
C13_ParsingReturnsString ==
    (Parsed /\ HasChoices(fn_args.payload)) =>
        /\ ~fn_result[1].raised
        /\ DOMAIN fn_result[1].value = 1..Len(fn_result[1].value)
        /\ \A i \in 1..Len(fn_result[1].value) : fn_result[1].value[i] \in AllChars
        /\ (~IsStr(ChoiceContent(fn_args.payload)) /\ ~IsStr(ChoiceText(fn_args.payload)))
               => fn_result[1].value = <<>>

C13_Witness ==
    /\ Parsed
    /\ HasChoices(fn_args.payload)
    /\ ~IsDict(fn_args.payload.v.choices.v[1])
    /\ fn_result[1] = Return(<<>>)

-----------------------------------------------------------------------------
(* Properties of the merged text *)

MarkerLine(n) == <<"--- PAGE ", ToString(n), " ---">>
BlankLine == <<"\n", "\n">>

\* The pages i.. of rs, each as its marker, a blank line and its trimmed
\* consensus text, with a blank line between consecutive pages
RECURSIVE PageBlocks(_, _)
PageBlocks(rs, i) ==
    IF i > Len(rs) THEN <<>>
    ELSE MarkerLine(rs[i].page_number) \o BlankLine \o Trimmed(rs[i].consensus_text)
         \o (IF i < Len(rs) THEN BlankLine \o PageBlocks(rs, i + 1) ELSE <<>>)

\* The text ends with one newline and no other whitespace before it
EndsWithOneNewline(t) ==
    /\ t # <<>>
    /\ t[Len(t)] = "\n"
    /\ Len(t) > 1 => t[Len(t) - 1] \notin Whitespace

\* The markers of the text are those of the pages, in their order
MarkersInOrder(t, ps) ==
    LET at == {i \in 1..Len(t) : t[i] = "--- PAGE "}
    IN  /\ Cardinality(at) = Len(ps)
        /\ \A k \in 1..Len(ps) :
              \E i \in at :
                  /\ Cardinality({j \in at : j <= i}) = k
                  /\ SubSeq(t, i, i + 2) = MarkerLine(ps[k])

\* C14 as stated: merged_text ends with exactly one newline and is one
\* marker per input page, in input order, each followed by a blank line and
\* the page's trimmed consensus text, consecutive pages a blank line apart.
C14_MergedIsMarkersAndTexts ==
    outcome.returned =>
        /\ EndsWithOneNewline(outcome.merged_text)
        /\ MarkersInOrder(outcome.merged_text, pages)
        /\ outcome.merged_text = PageBlocks(outcome.pages, 1) \o <<"\n">>

\* C14 amended: the pages so laid out are trimmed as a whole before the one
\* final newline is added: when the last page's trimmed consensus text is
\* empty the text ends right after the last marker, with no blank line.
C14_MergedIsTrimmedMarkersAndTexts ==
    outcome.returned =>
        /\ EndsWithOneNewline(outcome.merged_text)
        /\ MarkersInOrder(outcome.merged_text, pages)
        /\ outcome.merged_text = Trimmed(PageBlocks(outcome.pages, 1)) \o <<"\n">>
        /\ (pages # <<>> /\ Trimmed(outcome.pages[Len(pages)].consensus_text) # <<>>)
              => outcome.merged_text = PageBlocks(outcome.pages, 1) \o <<"\n">>

C14_Witness ==
    /\ outcome.returned
    /\ Len(pages) = 2
    /\ outcome.pages[1].consensus_text = <<"a", "b">>
    /\ outcome.pages[2].consensus_text = <<>>
    /\ outcome.merged_text =
         MarkerLine(pages[1]) \o <<"\n", "\n", "a", "b", "\n", "\n">>
         \o MarkerLine(pages[2]) \o <<"\n">>

-----------------------------------------------------------------------------
(* Properties of consensus_meta *)

\* C15: with two engines or more, pairwise_similarity has an entry for each
\* engine, holding a similarity for every other engine and none for itself,
\* and the two directions of a pair hold the same value.
C15_PairwiseIsSymmetricAndComplete ==
    \A r \in PageResultsSeen :
        Len(r.engine_texts) >= 2 =>
            LET p == r.consensus_meta.pairwise_similarity
                K == EngineSetOf(r)
            IN  /\ DOMAIN p = K
                /\ \A a \in K : DOMAIN p[a] = K \ {a}
                /\ \A a \in K : \A b \in K \ {a} :
                      /\ p[a][b] \in 0..SimScale
                      /\ p[a][b] = p[b][a]

C15_Witness ==
    \E r \in PageResultsSeen :
        /\ EngineSetOf(r) = {"a", "b", "c"}
        /\ LET p == r.consensus_meta.pairwise_similarity
           IN  /\ p["a"]["b"] = SimScale
               /\ p["c"]["a"] = 0
               /\ p["b"]["c"] = p["c"]["b"]

\* C16: with one engine the consensus text is that engine's text, the winner
\* is that engine, pairwise_similarity is the empty mapping and no
\* similarity is part of the metadata.
C16_SingleEngineIsItsOwnConsensus ==
    \A r \in PageResultsSeen :
        Len(r.engine_texts) = 1 =>
            /\ r.consensus_text = r.engine_texts[1][2]
            /\ r.consensus_meta.winner = r.engine_texts[1][1]
            /\ r.consensus_meta.winner = engines[1]
            /\ r.consensus_meta.pairwise_similarity = <<>>
            /\ DOMAIN r.consensus_meta = {"winner", "pairwise_similarity"}

C16_Witness ==
    \E r \in PageResultsSeen :
        /\ Len(r.engine_texts) = 1
        /\ r.consensus_text = <<"a", "b", "c">>
        /\ r.consensus_meta.winner = "a"

-----------------------------------------------------------------------------
(* Properties of ocr/quality.py *)

\* The text has been assessed; its report
Assessed == fn_args.fn = "quality" /\ Len(fn_result) >= 1
Report == fn_result[1]

\* The gates the report was put to, each with the answer
GateAnswers == {fn_result[i] : i \in 2..Len(fn_result)}

\* The ratio n/d is at least the ratio m/e
RatioAtLeast(p, q) == p[1] * q[2] >= q[1] * p[2]

\* The text is empty once trimmed: it has no character that is no whitespace
TrimsToEmpty(t) == \A i \in 1..Len(t) : t[i] \in Whitespace

AllZeroGate ==
    [min_chars_per_page |-> 0, min_alpha_ratio |-> Ratio(0, 1),
     min_printable_ratio |-> Ratio(0, 1)]

\* C17: the gate is passed exactly when the report does not look empty and
\* chars, alpha_ratio and printable_ratio each reach the gate's minimum; an
\* empty text fails every gate, the all-zero gate too.
C17_PassesIffAllFourHold ==
    (fn_args.fn = "quality") =>
        \A e \in GateAnswers :
            /\ e.passed <=>
                  /\ ~Report.looks_empty
                  /\ Report.chars >= e.gate.min_chars_per_page
                  /\ RatioAtLeast(Report.alpha_ratio, e.gate.min_alpha_ratio)
                  /\ RatioAtLeast(Report.printable_ratio, e.gate.min_printable_ratio)
            /\ TrimsToEmpty(fn_args.text) => ~e.passed

C17_Witness ==
    /\ fn_args.fn = "quality"
    /\ fn_args.text = <<" ">>
    /\ [gate |-> AllZeroGate, passed |-> FALSE] \in GateAnswers
    /\ Len(fn_result) = 3

\* C18: looks_empty exactly when the trimmed text is empty, and then chars,
\* alpha_chars, alpha_ratio and printable_ratio are 0; otherwise chars is
\* the length of the trimmed text.
C18_LooksEmptyIffTrimmedEmpty ==
    Assessed =>
        /\ Report.looks_empty <=> TrimsToEmpty(fn_args.text)
        /\ Report.looks_empty =>
              /\ Report.chars = 0
              /\ Report.alpha_chars = 0
              /\ Report.alpha_ratio[1] = 0
              /\ Report.printable_ratio[1] = 0
        /\ ~Report.looks_empty => Report.chars = Len(Trimmed(fn_args.text))

C18_Witness ==
    /\ Assessed
    /\ fn_args.text = <<" ", " ">>
    /\ Report.looks_empty
    /\ Report.chars = 0

\* The gate h asks at least what the gate g asks, in each of its minima
GateAtLeast(h, g) ==
    /\ h.min_chars_per_page >= g.min_chars_per_page
    /\ RatioAtLeast(h.min_alpha_ratio, g.min_alpha_ratio)
    /\ RatioAtLeast(h.min_printable_ratio, g.min_printable_ratio)

\* C19: a report that fails a gate fails every gate whose three minima are
\* each at least those of that gate.
C19_GateIsMonotonic ==
    (fn_args.fn = "quality") =>
        \A e, f \in GateAnswers :
            (GateAtLeast(f.gate, e.gate) /\ ~e.passed) => ~f.passed

C19_Witness ==
    /\ fn_args.fn = "quality"
    /\ Len(fn_result) = 3
    /\ ~Report.looks_empty
    /\ fn_result[2].gate # fn_result[3].gate
    /\ GateAtLeast(fn_result[3].gate, fn_result[2].gate)
    /\ fn_result[2].gate.min_chars_per_page = 0
    /\ ~fn_result[2].passed
    /\ ~fn_result[3].passed

\* C20: for a text that is not empty once trimmed, alpha_chars and the count
\* of printable characters are between 0 and chars, so that alpha_ratio and
\* printable_ratio are between 0 and 1.
C20_CountsWithinChars ==
    (Assessed /\ ~TrimsToEmpty(fn_args.text)) =>
        /\ Report.chars > 0
        /\ Report.alpha_chars \in 0..Report.chars
        /\ Report.alpha_ratio = <<Report.alpha_chars, Report.chars>>
        /\ Report.printable_ratio[1] \in 0..Report.chars
        /\ Report.printable_ratio[2] = Report.chars

C20_Witness ==
    /\ Assessed
    /\ fn_args.text = <<" ", "a", "1">>
    /\ Report.chars = 2
    /\ Report.alpha_chars = 1
    /\ Report.printable_ratio = <<2, 2>>

-----------------------------------------------------------------------------
(* ocr/pdf_render.py: render_pdf_to_png_pages *)

MaxPdfPages == 3

Min(x, y) == IF x <= y THEN x ELSE y

\* max_pages: int | None
NoCap == [set |-> FALSE]
Cap(n) == [set |-> TRUE, n |-> n]

\* pdf_bytes, by what fitz makes of them: whether they open as a PDF, the
\* page count, and the page (1-based, 0 for none) that fails to render
PdfInputs ==
    {[valid |-> FALSE, page_count |-> 0, bad_page |-> 0]}
    \cup {[valid |-> TRUE, page_count |-> n, bad_page |-> b] :
             n \in 0..MaxPdfPages, b \in 0..MaxPdfPages}

Dpis == {-1, 0, 72, 200}

Caps == {NoCap} \cup {Cap(n) : n \in -1..(MaxPdfPages + 1)}

\* RenderedPdfPage of the page with index idx (0-based); a page is one inch
\* square, so that the pixmap is dpi pixels wide and high
RenderedPdfPage(idx, dpi) ==
    [page_number |-> idx + 1, png_bytes |-> <<"png", idx, dpi>>,
     width_px |-> dpi, height_px |-> dpi]

RenderInit ==
    /\ IdleRun
    /\ fn_args = NoCall
    /\ fn_result = <<>>
    /\ db = Idle
    /\ vpn = Idle
    /\ embed = Idle
    /\ render \in {[pc |-> "start", pdf_bytes |-> f, dpi |-> d, max_pages |-> c,
                    opened |-> FALSE, closed |-> FALSE, idx |-> 0, pages |-> <<>>,
                    loaded |-> <<>>, result |-> NoResult, error |-> NoError] :
                      f \in {x \in PdfInputs : x.bad_page <= x.page_count},
                      d \in Dpis, c \in Caps}

\* Mutant: only a negative dpi is refused
DpiInvalid_ZeroAllowed(dpi) == dpi < 0

\* `if dpi <= 0`
DpiInvalid(dpi) == dpi <= 0

\* The check of dpi at the entry
RenderCheckDpi ==
    /\ render.pc = "start"
    /\ render' = IF DpiInvalid(render.dpi)
                 THEN [render EXCEPT !.pc = "raised",
                          !.error = Raise("ValueError", "dpi must be > 0", NoRequest)]
                 ELSE [render EXCEPT !.pc = "open"]
    /\ UNCHANGED <<run_vars, fn_args, fn_result, db, vpn, embed>>

\* doc = fitz.open(stream=pdf_bytes, filetype="pdf"): outside the try block
RenderOpen ==
    /\ render.pc = "open"
    /\ render' = IF render.pdf_bytes.valid
                 THEN [render EXCEPT !.pc = "loop", !.opened = TRUE]
                 ELSE [render EXCEPT !.pc = "raised",
                          !.error = Raise("FileDataError", "Failed to open stream", NoRequest)]
    /\ UNCHANGED <<run_vars, fn_args, fn_result, db, vpn, embed>>

\* Mutant: the loop is left one page late
CapReached_OffByOne(max_pages, n) == max_pages.set /\ n > max_pages.n

\* `max_pages is not None and len(pages) >= max_pages`
CapReached(max_pages, n) == max_pages.set /\ n >= max_pages.n

\* The loop is over: range exhausted or break
LoopOver ==
    \/ render.idx >= render.pdf_bytes.page_count
    \/ CapReached(render.max_pages, Len(render.pages))

\* One iteration: load_page, get_pixmap, pages.append
RenderPage ==
    /\ render.pc = "loop"
    /\ ~LoopOver
    /\ render.pdf_bytes.bad_page # render.idx + 1
    /\ render' = [render EXCEPT
                     !.loaded = Append(@, render.idx),
                     !.pages = Append(@, RenderedPdfPage(render.idx, render.dpi)),
                     !.idx = @ + 1]
    /\ UNCHANGED <<run_vars, fn_args, fn_result, db, vpn, embed>>

\* One iteration in which the page fails to render: the exception leaves
\* the function through `finally: doc.close()`
RenderPageFails ==
    /\ render.pc = "loop"
    /\ ~LoopOver
    /\ render.pdf_bytes.bad_page = render.idx + 1
    /\ render' = [render EXCEPT
                     !.loaded = Append(@, render.idx),
                     !.closed = TRUE,
                     !.pc = "raised",
                     !.error = Raise("RuntimeError", "page render failed", NoRequest)]
    /\ UNCHANGED <<run_vars, fn_args, fn_result, db, vpn, embed>>

\* return pages, through `finally: doc.close()`
RenderReturn ==
    /\ render.pc = "loop"
    /\ LoopOver
    /\ render' = [render EXCEPT
                     !.closed = TRUE,
                     !.pc = "done",
                     !.result = [returned |-> TRUE, pages |-> render.pages]]
    /\ UNCHANGED <<run_vars, fn_args, fn_result, db, vpn, embed>>

RenderNext ==
    \/ RenderCheckDpi
    \/ RenderOpen
    \/ RenderPage
    \/ RenderPageFails
    \/ RenderReturn

SpecRender == RenderInit /\ [][RenderNext]_vars

-----------------------------------------------------------------------------
(* Properties of render_pdf_to_png_pages *)

Rendering == render.pc # "idle"

\* The number of pages the call is to return: min(P, max_pages), P without cap
PagesWanted ==
    IF render.max_pages.set
    THEN Min(render.pdf_bytes.page_count, render.max_pages.n)
    ELSE render.pdf_bytes.page_count

\* C21: the pages returned are the first min(P, max_pages) pages, numbered
\* 1, 2, ... in document order; pages are loaded in document order, none
\* beyond the cap; reaching the cap ends the call with a return, and the
\* call raises only for the dpi, a PDF that does not open or a page that
\* does not render.
C21_FirstPagesInOrder ==
    Rendering =>
        /\ render.result.returned =>
              /\ DOMAIN render.result.pages = 1..PagesWanted
              /\ \A i \in 1..Len(render.result.pages) :
                    render.result.pages[i] = RenderedPdfPage(i - 1, render.dpi)
        /\ \A j \in 1..Len(render.loaded) :
              /\ render.loaded[j] = j - 1
              /\ render.max_pages.set => j <= render.max_pages.n
        /\ render.pc = "done" <=> render.result.returned
        /\ render.pc = "raised" =>
              \/ render.dpi <= 0
              \/ ~render.pdf_bytes.valid
              \/ /\ render.loaded # <<>>
                 /\ render.loaded[Len(render.loaded)] + 1 = render.pdf_bytes.bad_page

C21_Witness ==
    /\ Rendering
    /\ render.result.returned
    /\ render.pdf_bytes.page_count = 3
    /\ render.pdf_bytes.bad_page = 3
    /\ render.max_pages = Cap(2)
    /\ Len(render.result.pages) = 2
    /\ render.loaded = <<0, 1>>

\* C22: with dpi <= 0 the call ends in the ValueError of the dpi check, the
\* PDF is never opened and no page is loaded, whatever pdf_bytes and
\* max_pages are.
C22_BadDpiRejectedFirst ==
    (Rendering /\ render.dpi <= 0) =>
        /\ ~render.opened
        /\ render.loaded = <<>>
        /\ ~render.result.returned
        /\ render.pc \in {"start", "raised"}
        /\ render.pc = "raised" =>
              /\ render.error.type = "ValueError"
              /\ render.error.message = "dpi must be > 0"

C22_Witness ==
    /\ Rendering
    /\ render.pc = "raised"
    /\ render.dpi = 0
    /\ render.pdf_bytes.valid
    /\ render.pdf_bytes.page_count = 3
    /\ render.max_pages = NoCap

-----------------------------------------------------------------------------
(* routing.py, repositories/review_queue.py: deterministic identifiers *)

\* A string is a sequence of tokens of a prefix-free set ("a", ":", "ocr",
\* "review"), so that two strings are equal exactly when their sequences are.
\* The values of pipeline_version, document_id and reason:
IdFields ==
    { <<"a">>,
      <<"a", ":", "a">>,
      <<"a", ":", "review", ":", "a">> }

\* uuid5(NAMESPACE_URL, name): a hash of the name, taken as free of collisions
Uuid5(name) == <<"uuid5", "NAMESPACE_URL", name>>

\* f"{pipeline_version}:{document_id}:ocr"
OcrRunKey(pipeline_version, document_id) ==
    pipeline_version \o <<":">> \o document_id \o <<":", "ocr">>

deterministic_ocr_run_id(pipeline_version, document_id) ==
    Uuid5(OcrRunKey(pipeline_version, document_id))

\* f"{pipeline_version}:{document_id}:review:{reason}"
ReviewKey(pipeline_version, document_id, reason) ==
    pipeline_version \o <<":">> \o document_id \o <<":", "review", ":">> \o reason

deterministic_review_id(pipeline_version, document_id, reason) ==
    Uuid5(ReviewKey(pipeline_version, document_id, reason))

-----------------------------------------------------------------------------
(* repositories/ocr.py: upsert_ocr_run on the ocr_runs table *)

MaxUpserts == 3

\* The pairs whose runs are persisted
RunPipelineVersions == {<<"a">>, <<"a", ":", "a">>}
RunDocumentIds == {<<"a">>, <<"a", ":", "a">>}

\* engine, status and metrics_json of a run
RunOutcomes ==
    { [engine |-> "ensemble", status |-> "running", metrics_json |-> "null"],
      [engine |-> "ensemble", status |-> "passed", metrics_json |-> "{pages: 2}"],
      [engine |-> "single", status |-> "failed", metrics_json |-> "{pages: 1}"] }

\* OcrRun built by the caller for a pair
OcrRun(pipeline_version, document_id, o) ==
    [ocr_run_id |-> deterministic_ocr_run_id(pipeline_version, document_id),
     document_id |-> document_id,
     pipeline_version |-> pipeline_version,
     engine |-> o.engine, status |-> o.status, metrics_json |-> o.metrics_json]

\* insert ... on conflict (ocr_run_id) do update set engine, status,
\* metrics_json: the table has one row per ocr_run_id
UpsertRow(table, run) ==
    IF \E r \in table : r.ocr_run_id = run.ocr_run_id
    THEN {IF r.ocr_run_id = run.ocr_run_id
          THEN [r EXCEPT !.engine = run.engine, !.status = run.status,
                         !.metrics_json = run.metrics_json]
          ELSE r : r \in table}
    ELSE table \cup {run}

OcrRunsInit ==
    /\ IdleRun
    /\ fn_args = NoCall
    /\ fn_result = <<>>
    /\ render = Idle
    /\ vpn = Idle
    /\ embed = Idle
    /\ db = [pc |-> "ocr_runs", ocr_runs |-> {}, upserts |-> <<>>]

\* OcrRepository.upsert_ocr_run(run) with its commit
UpsertOcrRun ==
    /\ db.pc = "ocr_runs"
    /\ Len(db.upserts) < MaxUpserts
    /\ \E pv \in RunPipelineVersions, doc \in RunDocumentIds, o \in RunOutcomes :
         LET run == OcrRun(pv, doc, o)
         IN  db' = [db EXCEPT !.ocr_runs = UpsertRow(@, run),
                              !.upserts = Append(@, run)]
    /\ UNCHANGED <<run_vars, fn_args, fn_result, render, vpn, embed>>

OcrRunsNext == UpsertOcrRun

SpecOcrRuns == OcrRunsInit /\ [][OcrRunsNext]_vars

-----------------------------------------------------------------------------
(* Properties of upsert_ocr_run *)

\* The index in db.upserts of the latest upsert for a pair
LatestUpsert(pv, doc) ==
    CHOOSE i \in 1..Len(db.upserts) :
        /\ db.upserts[i].pipeline_version = pv
        /\ db.upserts[i].document_id = doc
        /\ \A j \in (i + 1)..Len(db.upserts) :
              ~(db.upserts[j].pipeline_version = pv /\ db.upserts[j].document_id = doc)

\* C23: after any sequence of upserts, each pair (pipeline_version,
\* document_id) that was persisted has exactly one row in ocr_runs, and the
\* row carries the engine, status and metrics of the pair's latest upsert.
C23_OneRecordPerPair ==
    (db.pc = "ocr_runs") =>
        \A k \in 1..Len(db.upserts) :
            LET pv == db.upserts[k].pipeline_version
                doc == db.upserts[k].document_id
                rows == {r \in db.ocr_runs :
                            r.pipeline_version = pv /\ r.document_id = doc}
            IN  /\ Cardinality(rows) = 1
                /\ \A r \in rows : r = db.upserts[LatestUpsert(pv, doc)]


-----------------------------------------------------------------------------
(* repositories/review_queue.py: ensure_open_item by concurrent workers *)

MaxReviewCalls == 3

Workers == {"w1", "w2"}

\* The (document_id, pipeline_version, reason) the calls are made for
ReviewKeys ==
    { [document_id |-> <<"a">>, pipeline_version |-> <<"a">>, reason |-> <<"a">>],
      [document_id |-> <<"a">>, pipeline_version |-> <<"a">>, reason |-> <<"a", ":", "a">>] }

\* uuid4(): the n-th random identifier, different from every other
Uuid4(n) == <<"uuid4", n>>

NoRow == [found |-> FALSE]

\* select ... where document_id=%s and pipeline_version=%s and reason=%s and
\* status='open' order by created_at desc limit 1
get_open_item(table, key) ==
    LET open == {r \in table :
                    /\ r.document_id = key.document_id
                    /\ r.pipeline_version = key.pipeline_version
                    /\ r.reason = key.reason
                    /\ r.status = "open"}
    IN  IF open = {} THEN NoRow
        ELSE [found |-> TRUE,
              row |-> CHOOSE r \in open : \A q \in open : q.created_at <= r.created_at]

\* The table refuses a second row with a review_id it holds already
ReviewIdTaken(table, review_id) == \E r \in table : r.review_id = review_id

WorkerIdle == [pc |-> "idle"]

ReviewInit ==
    /\ IdleRun
    /\ fn_args = NoCall
    /\ fn_result = <<>>
    /\ render = Idle
    /\ vpn = Idle
    /\ embed = Idle
    /\ db = [pc |-> "review_queue", review_queue |-> {}, calls |-> 0, uuid4s |-> 0,
             workers |-> [w \in Workers |-> WorkerIdle]]

\* ensure_open_item entered by worker w: existing = self.get_open_item(...)
EnsureCheck(w) ==
    /\ db.pc = "review_queue"
    /\ db.workers[w].pc \in {"idle", "returned", "raised"}
    /\ db.calls < MaxReviewCalls
    /\ \E key \in ReviewKeys, deterministic \in BOOLEAN :
         db' = [db EXCEPT !.calls = @ + 1,
                          !.workers[w] = [pc |-> "checked", key |-> key,
                                          deterministic |-> deterministic,
                                          existing |-> get_open_item(db.review_queue, key)]]
    /\ UNCHANGED <<run_vars, fn_args, fn_result, render, vpn, embed>>

\* `if existing: return existing.review_id`
EnsureReturnExisting(w) ==
    /\ db.pc = "review_queue"
    /\ db.workers[w].pc = "checked"
    /\ db.workers[w].existing.found
    /\ db' = [db EXCEPT !.workers[w] =
                 [pc |-> "returned", key |-> db.workers[w].key,
                  review_id |-> db.workers[w].existing.row.review_id]]
    /\ UNCHANGED <<run_vars, fn_args, fn_result, render, vpn, embed>>

\* The review_id of the row to insert, and the uuid4 count after it
NewReviewId(w) ==
    IF db.workers[w].deterministic
    THEN deterministic_review_id(db.workers[w].key.pipeline_version,
                                 db.workers[w].key.document_id,
                                 db.workers[w].key.reason)
    ELSE Uuid4(db.uuid4s + 1)

\* insert into review_queue ... 'open'; commit; return review_id
EnsureInsert(w) ==
    /\ db.pc = "review_queue"
    /\ db.workers[w].pc = "checked"
    /\ ~db.workers[w].existing.found
    /\ ~ReviewIdTaken(db.review_queue, NewReviewId(w))
    /\ db' = [db EXCEPT
                 !.uuid4s = IF db.workers[w].deterministic THEN @ ELSE @ + 1,
                 !.review_queue = @ \cup
                     {[review_id |-> NewReviewId(w),
                       document_id |-> db.workers[w].key.document_id,
                       pipeline_version |-> db.workers[w].key.pipeline_version,
                       reason |-> db.workers[w].key.reason,
                       status |-> "open",
                       created_at |-> Cardinality(db.review_queue) + 1]},
                 !.workers[w] = [pc |-> "returned", key |-> db.workers[w].key,
                                 review_id |-> NewReviewId(w)]]
    /\ UNCHANGED <<run_vars, fn_args, fn_result, render, vpn, embed>>

\* The insert is refused: the exception of the driver leaves ensure_open_item
EnsureInsertRefused(w) ==
    /\ db.pc = "review_queue"
    /\ db.workers[w].pc = "checked"
    /\ ~db.workers[w].existing.found
    /\ ReviewIdTaken(db.review_queue, NewReviewId(w))
    /\ db' = [db EXCEPT !.workers[w] =
                 [pc |-> "raised", key |-> db.workers[w].key,
                  error |-> Raise("UniqueViolation", "duplicate key value", NoRequest)]]
    /\ UNCHANGED <<run_vars, fn_args, fn_result, render, vpn, embed>>

ReviewNext ==
    \/ \E w \in Workers : EnsureCheck(w)
    \/ \E w \in Workers : EnsureReturnExisting(w)
    \/ \E w \in Workers : EnsureInsert(w)
    \/ \E w \in Workers : EnsureInsertRefused(w)

SpecReview == ReviewInit /\ [][ReviewNext]_vars

-----------------------------------------------------------------------------
(* Properties of ensure_open_item *)

OpenItems(key) ==
    {r \in db.review_queue :
        /\ r.document_id = key.document_id
        /\ r.pipeline_version = key.pipeline_version
        /\ r.reason = key.reason
        /\ r.status = "open"}

\* C24: whatever calls of ensure_open_item were made for a key, by one
\* worker or interleaved across workers, at most one open review item
\* exists for the key.
C24_AtMostOneOpenItem ==
    (db.pc = "review_queue") =>
        \A key \in ReviewKeys : Cardinality(OpenItems(key)) <= 1


-----------------------------------------------------------------------------
(* Properties of engine_texts and quality_by_engine *)

\* The gateway call made for the i-th page and the e-th configured engine
CallFor(i, e) == calls[(i - 1) * Len(engines) + e]

KeySet(d) == {d[j][1] : j \in 1..Len(d)}

\* C25: in every page result, for every configured engine, engine_texts maps
\* the engine's name to the text the gateway returned for that engine on
\* that page, no call's text being lost or given to another engine, and
\* quality_by_engine has entries for the same engine names.
C25_EngineTextsAreReturnedTexts ==
    \A i \in 1..Len(results) :
        /\ i * Len(engines) <= Len(calls)
        /\ \A e \in 1..Len(engines) : "text" \in DOMAIN CallFor(i, e)
        /\ \A e \in 1..Len(engines) : DictHas(results[i].engine_texts, engines[e])
        /\ \A e \in 1..Len(engines) :
              DictGet(results[i].engine_texts, engines[e]) = CallFor(i, e).text
        /\ KeySet(results[i].quality_by_engine) = KeySet(results[i].engine_texts)
        /\ KeySet(results[i].engine_texts) = {engines[e] : e \in 1..Len(engines)}


-----------------------------------------------------------------------------
(* vpn.py: VpnRotationGuard *)

MaxRequests == 3
MaxPool == 2
MaxPolls == 1

\* A host name is its sequence of labels; urlparse(...).hostname is None for
\* a URL with no host
Urls ==
    { [scheme |-> "https", host |-> <<"www", "vatican", "va">>],
      [scheme |-> "http", host |-> <<"example", "com">>],
      [scheme |-> "http", host |-> <<"qdrant", "research", "svc", "cluster", "local">>],
      [scheme |-> "http", host |-> <<"prefect", "svc">>],
      [scheme |-> "http", host |-> <<"127.0.0.1">>],
      [scheme |-> "https", host |-> <<"LOCALHOST">>],
      [scheme |-> "file", host |-> <<>>],
      [scheme |-> "", host |-> <<>>] }

\* str.lower() of a label
Lower(label) == IF label = "LOCALHOST" THEN "localhost" ELSE label

\* host.endswith("." + suffix)
EndsWith(host, suffix) ==
    /\ Len(host) > Len(suffix)
    /\ SubSeq(host, Len(host) - Len(suffix) + 1, Len(host)) = suffix

is_probably_external_url(url) ==
    LET host == [i \in 1..Len(url.host) |-> Lower(url.host[i])]
    IN  IF url.scheme \notin {"http", "https"} THEN FALSE
        ELSE IF host = <<>> THEN FALSE
        ELSE IF host \in {<<"localhost">>, <<"127.0.0.1">>} THEN FALSE
        ELSE IF EndsWith(host, <<"svc">>) \/ EndsWith(host, <<"svc", "cluster", "local">>)
             THEN FALSE
        ELSE TRUE

\* How the last call on the guard ended
NoOutcome == [kind |-> "none"]
Returned(value) == [kind |-> "returned", value |-> value]
Raised(type) == [kind |-> "raised", type |-> type]

\* The guard after construction; proxy_pool is the number of proxies of the
\* pool (0: no pool), http_proxy the position in the pool of the proxy that
\* HTTP_PROXY holds (0: unset)
VpnInit ==
    /\ IdleRun
    /\ fn_args = NoCall
    /\ fn_result = <<>>
    /\ render = Idle
    /\ db = Idle
    /\ embed = Idle
    /\ \E g \in BOOLEAN, n \in 0..MaxPool, every \in 0..2, req \in BOOLEAN :
         vpn = [pc |-> "idle", gluetun |-> g, proxy_pool |-> n,
                rotate_every_n_requests |-> every, require_vpn_for_external |-> req,
                _external_request_count |-> 0, _proxy_index |-> 0, http_proxy |-> 0,
                top |-> "none", in_rotate |-> FALSE, rot_i |-> 0, polls |-> 0,
                requests |-> 0, ext_calls |-> 0, passed |-> 0,
                external |-> FALSE, sets |-> <<>>, switches |-> 0, checked |-> FALSE,
                contacted |-> FALSE, rotations |-> 0, last |-> NoOutcome]

VpnStep(v) ==
    /\ vpn' = v
    /\ UNCHANGED <<run_vars, fn_args, fn_result, render, db, embed>>

\* The guard as a call on it begins: the history of the call is empty
Entered(top, external) ==
    [vpn EXCEPT !.top = top, !.external = external, !.requests = @ + 1,
                !.in_rotate = FALSE, !.rot_i = 0, !.polls = 0,
                !.sets = <<>>, !.switches = 0, !.checked = FALSE,
                !.contacted = FALSE, !.rotations = 0, !.last = NoOutcome]

\* The call on the guard ends
Finish(v, how) == [v EXCEPT !.pc = "idle", !.last = how]

\* before_request: `if not is_probably_external_url(url): return False`
BeforeRequestInternal ==
    /\ vpn.pc = "idle"
    /\ vpn.requests < MaxRequests
    /\ \E url \in Urls :
         /\ ~is_probably_external_url(url)
         /\ VpnStep(Finish(Entered("before_request", FALSE), Returned(FALSE)))

\* before_request with an external URL, up to the call of ensure_vpn_running
BeforeRequestExternal ==
    /\ vpn.pc = "idle"
    /\ vpn.requests < MaxRequests
    /\ \E url \in Urls :
         /\ is_probably_external_url(url)
         /\ VpnStep([Entered("before_request", TRUE) EXCEPT
                        !.ext_calls = @ + 1,
                        !.passed = IF vpn.require_vpn_for_external THEN @ ELSE @ + 1,
                        !.pc = IF vpn.require_vpn_for_external THEN "ensure" ELSE "count"])


\* Where ensure_vpn_running returns to: rotate_vpn returns after it, and
\* before_request goes on to count the request
EnsureReturns(v) ==
    IF v.in_rotate THEN [v EXCEPT !.pc = "rotate_return"]
    ELSE [v EXCEPT !.pc = "count", !.passed = @ + 1]

\* Where the VpnError of ensure_vpn_running goes: the loop over the pool in
\* rotate_vpn catches it, every other caller lets it through
EnsureRaises(v) ==
    IF v.in_rotate /\ v.proxy_pool >= 2 THEN [v EXCEPT !.pc = "rotate_loop"]
    ELSE Finish(v, Raised("VpnError"))

\* _rotate_proxy_once
_rotate_proxy_once(v) ==
    [v EXCEPT !._proxy_index = (@ + 1) % v.proxy_pool,
              !.http_proxy = ((v._proxy_index + 1) % v.proxy_pool) + 1,
              !.switches = @ + 1,
              !.checked = FALSE]

\* ensure_vpn_running: `if self._is_cache_fresh(): return`
EnsureCached ==
    /\ vpn.pc = "ensure"
    /\ VpnStep(EnsureReturns(vpn))

\* ensure_vpn_running: the cache is not fresh, the deadline is set
EnsureUncached ==
    /\ vpn.pc = "ensure"
    /\ VpnStep([vpn EXCEPT !.pc = "ensure_loop", !.polls = 0])

\* One iteration of the loop of ensure_vpn_running with a proxy pool, given
\* what openvpn_status and the probe answer
PollProxy(v, status, probe) ==
    LET w == IF v.http_proxy = 0
             THEN [v EXCEPT !.http_proxy = 1, !.contacted = v.gluetun]
             ELSE [v EXCEPT !.contacted = v.gluetun]
    IN  IF w.gluetun /\ status = "running" THEN EnsureReturns([w EXCEPT !.checked = TRUE])
        ELSE IF probe THEN EnsureReturns([w EXCEPT !.checked = TRUE])
        ELSE _rotate_proxy_once(w)

\* One iteration of the loop of ensure_vpn_running without a proxy pool
PollGluetun(v, status, ip, probe) ==
    IF ~v.gluetun THEN v
    ELSE LET w == [v EXCEPT !.contacted = TRUE]
         IN  IF status = "error" THEN w
             ELSE IF status = "running"
             THEN IF ip \/ probe THEN EnsureReturns([w EXCEPT !.checked = TRUE])
                  ELSE [w EXCEPT !.sets = @ \o <<"stopped", "running">>]
             ELSE [w EXCEPT !.sets = Append(@, "running")]

\* ensure_vpn_running: one iteration of `while time.monotonic() < deadline`
EnsurePoll ==
    /\ vpn.pc = "ensure_loop"
    /\ vpn.polls < MaxPolls
    /\ \E status \in {"running", "stopped", "error"}, ip \in BOOLEAN, probe \in BOOLEAN :
         LET v == [vpn EXCEPT !.polls = @ + 1]
         IN  VpnStep(IF v.proxy_pool > 0 THEN PollProxy(v, status, probe)
                     ELSE PollGluetun(v, status, ip, probe))

\* ensure_vpn_running: the deadline has passed, VpnError is raised
EnsureTimeout ==
    /\ vpn.pc = "ensure_loop"
    /\ VpnStep(EnsureRaises(vpn))

\* Mutant: a rotation is due on every request from the N-th on
RotationDue_FromNthOn(count, rotate_every) == rotate_every > 0 /\ count >= rotate_every

\* `rotate_every > 0 and self._external_request_count % rotate_every == 0`
RotationDue(count, rotate_every) == rotate_every > 0 /\ count % rotate_every = 0

\* before_request after ensure_vpn_running: the request is counted
CountRequest ==
    /\ vpn.pc = "count"
    /\ LET v == [vpn EXCEPT !._external_request_count = @ + 1]
           rotate_every == IF v.proxy_pool = 1 THEN 0 ELSE v.rotate_every_n_requests
       IN  VpnStep(IF RotationDue(v._external_request_count, rotate_every)
                   THEN [v EXCEPT !.pc = "rotate", !.in_rotate = TRUE]
                   ELSE Finish(v, Returned(FALSE)))

\* rotate_vpn called on its own
RotateVpnCall ==
    /\ vpn.pc = "idle"
    /\ vpn.requests < MaxRequests
    /\ VpnStep([Entered("rotate_vpn", FALSE) EXCEPT !.pc = "rotate", !.in_rotate = TRUE])

\* rotate_vpn with a pool of one proxy: `self.ensure_vpn_running()`
RotateSingle ==
    /\ vpn.pc = "rotate"
    /\ vpn.proxy_pool = 1
    /\ VpnStep([vpn EXCEPT !.pc = "ensure"])

\* rotate_vpn with a pool of two or more: entering `for _ in range(len(...))`
RotatePool ==
    /\ vpn.pc = "rotate"
    /\ vpn.proxy_pool >= 2
    /\ VpnStep([vpn EXCEPT !.pc = "rotate_loop", !.rot_i = 0])

\* One iteration of the loop over the pool: the next proxy, then its check
RotateTry ==
    /\ vpn.pc = "rotate_loop"
    /\ vpn.rot_i < vpn.proxy_pool
    /\ VpnStep([_rotate_proxy_once(vpn) EXCEPT !.rot_i = @ + 1, !.pc = "ensure"])

\* `raise VpnError("All VPN proxies failed connectivity checks")`
RotateExhausted ==
    /\ vpn.pc = "rotate_loop"
    /\ vpn.rot_i >= vpn.proxy_pool
    /\ VpnStep(Finish(vpn, Raised("VpnError")))

\* `raise VpnError("rotate_vpn requires a Gluetun control client ...")`
RotateNoControl ==
    /\ vpn.pc = "rotate"
    /\ vpn.proxy_pool = 0
    /\ ~vpn.gluetun
    /\ VpnStep(Finish(vpn, Raised("VpnError")))

\* rotate_vpn cycling OpenVPN: stopped, the wait, running, then the check
RotateCycle ==
    /\ vpn.pc = "rotate"
    /\ vpn.proxy_pool = 0
    /\ vpn.gluetun
    /\ VpnStep([vpn EXCEPT !.sets = @ \o <<"stopped", "running">>, !.contacted = TRUE,
                           !.rotations = @ + 1, !.pc = "ensure"])

\* rotate_vpn cycling OpenVPN when a call of the control client raises: the
\* first set_openvpn_status, openvpn_status in the wait, or the second set
RotateCycleFails ==
    /\ vpn.pc = "rotate"
    /\ vpn.proxy_pool = 0
    /\ vpn.gluetun
    /\ \E failing \in {"stop", "status", "start"} :
         VpnStep(Finish([vpn EXCEPT !.contacted = TRUE,
                                    !.sets = IF failing = "start"
                                             THEN @ \o <<"stopped", "running">>
                                             ELSE Append(@, "stopped")],
                        Raised("ControlError")))

\* rotate_vpn returns; before_request returns True after it
RotateReturn ==
    /\ vpn.pc = "rotate_return"
    /\ VpnStep(Finish(vpn, Returned(vpn.top = "before_request")))

VpnNext ==
    \/ BeforeRequestInternal
    \/ BeforeRequestExternal
    \/ EnsureCached
    \/ EnsureUncached
    \/ EnsurePoll
    \/ EnsureTimeout
    \/ CountRequest
    \/ RotateVpnCall
    \/ RotateSingle
    \/ RotatePool
    \/ RotateTry
    \/ RotateExhausted
    \/ RotateNoControl
    \/ RotateCycle
    \/ RotateCycleFails
    \/ RotateReturn

SpecVpn == VpnInit /\ [][VpnNext]_vars


-----------------------------------------------------------------------------
(* Properties of VpnRotationGuard *)

\* A before_request call has ended on a guard with a control client, no
\* proxy pool and rotate_every_n_requests > 0
RequestEnded ==
    /\ vpn.pc = "idle"
    /\ vpn.top = "before_request"
    /\ vpn.gluetun
    /\ vpn.proxy_pool = 0
    /\ vpn.rotate_every_n_requests > 0

StoppedThenRunning(sets) ==
    \E i, j \in 1..Len(sets) : i < j /\ sets[i] = "stopped" /\ sets[j] = "running"

\* C26: on a guard with a control client, no proxy pool and
\* rotate_every_n_requests = N > 0, a before_request call returns True, after
\* one rotation that sets the status to stopped and then to running, exactly
\* when its URL is external and it is the N-th, 2N-th, ... external request;
\* every other call returns False; a call with a URL that is not external
\* neither advances the count nor contacts the control.
C26_RotatesOnEveryNthExternal ==
    RequestEnded =>
        /\ vpn.last.kind = "returned"
        /\ vpn.last.value =
             (vpn.external /\ vpn.ext_calls % vpn.rotate_every_n_requests = 0)
        /\ vpn.last.value => (vpn.rotations = 1 /\ StoppedThenRunning(vpn.sets))
        /\ ~vpn.external => (~vpn.contacted /\ vpn.sets = <<>>)
        /\ vpn._external_request_count = vpn.ext_calls

\* C26 as the code has it: a call with an external URL may raise instead of
\* returning, and a request whose health check raised is not counted.  A call
\* that returns returns True, after one rotation that sets the status to
\* stopped and then to running, exactly when its URL is external and it is
\* the N-th, 2N-th, ... of the external requests whose health check passed;
\* a call with a URL that is not external returns False, leaves the count
\* alone and does not contact the control.
C26_RotatesOnEveryNthPassed ==
    RequestEnded =>
        /\ vpn.last.kind \in {"returned", "raised"}
        /\ vpn._external_request_count = vpn.passed
        /\ vpn.last.kind = "returned" =>
             /\ vpn.last.value =
                  (vpn.external /\ vpn.passed % vpn.rotate_every_n_requests = 0)
             /\ vpn.last.value => (vpn.rotations = 1 /\ StoppedThenRunning(vpn.sets))
        /\ vpn.last.kind = "raised" => vpn.external
        /\ ~vpn.external => (~vpn.contacted /\ vpn.sets = <<>> /\ vpn.rotations = 0)

\* The third external request is the second whose health check passed and,
\* with N = 2, is answered True after its rotation
C26_Witness ==
    /\ RequestEnded
    /\ vpn.rotate_every_n_requests = 2
    /\ vpn.ext_calls = 3
    /\ vpn.passed = 2
    /\ vpn.last = Returned(TRUE)

\* C28: with a pool of two or more proxies a rotate_vpn call switches the
\* active proxy at most len(proxy_pool) times, health checks included; it
\* returns only if the proxy active at the return has passed a check made
\* after it was selected, and raises VpnError otherwise.
C28_EachProxyTriedOnce ==
    (vpn.top = "rotate_vpn" /\ vpn.proxy_pool >= 2) =>
        /\ vpn.switches <= vpn.proxy_pool
        /\ (vpn.pc = "idle" /\ vpn.last.kind = "returned") => vpn.checked
        /\ (vpn.pc = "idle" /\ vpn.last.kind = "raised") => vpn.last.type = "VpnError"


-----------------------------------------------------------------------------
(* chunking.py: chunk_text *)

MaxWords == 5
MaxTokens == 3

\* The length of the run of characters that are no whitespace at the head of s
WordLen(s) ==
    IF \E i \in 1..Len(s) : s[i] \in Whitespace
    THEN (CHOOSE i \in 1..Len(s) :
             s[i] \in Whitespace /\ \A j \in 1..(i - 1) : s[j] \notin Whitespace) - 1
    ELSE Len(s)

\* [t for t in (text or "").split() if t]
RECURSIVE _tokens(_)
_tokens(text) ==
    LET t == LStrip(text)
    IN  IF t = <<>> THEN <<>>
        ELSE <<SubSeq(t, 1, WordLen(t))>> \o _tokens(SubSeq(t, WordLen(t) + 1, Len(t)))

\* " ".join(window)
RECURSIVE JoinWords(_)
JoinWords(window) ==
    IF window = <<>> THEN <<>>
    ELSE IF Len(window) = 1 THEN window[1]
    ELSE window[1] \o <<" ">> \o JoinWords(Tail(window))

\* The texts of n words with one separator between them, bare or padded
RECURSIVE Spaced(_, _)
Spaced(ws, sep) ==
    IF ws = <<>> THEN <<>>
    ELSE IF Len(ws) = 1 THEN ws[1]
    ELSE ws[1] \o sep \o Spaced(Tail(ws), sep)

ChunkWords == {<<"a">>, <<"b", "1">>}

ChunkTexts ==
    UNION {{Spaced(ws, sep) : ws \in [1..n -> ChunkWords], sep \in {<<" ">>, <<"\n", " ">>}}
           \cup {<<" ">> \o Spaced(ws, <<"\t">>) \o <<"\n">> : ws \in [1..n -> ChunkWords]} :
              n \in 0..MaxWords}

ChunkInit ==
    /\ IdleRun
    /\ ExtIdle
    /\ fn_args \in {[fn |-> "chunk_text", text |-> t, max_tokens |-> m, overlap_tokens |-> o] :
                       t \in ChunkTexts, m \in 0..MaxTokens, o \in -1..MaxTokens}
    /\ fn_result = <<>>

\* Where chunk_text stands: its locals, or how it ended
ChunkFrame(at, words, start, chunks, err) ==
    [pc |-> at, words |-> words, start |-> start, chunks |-> chunks, error |-> err]

\* The checks of the arguments, the first that fails
ChunkArgumentError(max_tokens, overlap_tokens) ==
    IF max_tokens <= 0 THEN Raise("ValueError", "max_tokens must be > 0", NoRequest)
    ELSE IF overlap_tokens < 0
    THEN Raise("ValueError", "overlap_tokens must be >= 0", NoRequest)
    ELSE IF overlap_tokens >= max_tokens
    THEN Raise("ValueError", "overlap_tokens must be < max_tokens", NoRequest)
    ELSE NoError

\* chunk_text raises ValueError for its arguments
ChunkRejects ==
    /\ fn_args.fn = "chunk_text"
    /\ fn_result = <<>>
    /\ ChunkArgumentError(fn_args.max_tokens, fn_args.overlap_tokens).raised
    /\ fn_result' = <<ChunkFrame("raised", <<>>, 0, <<>>,
                                 ChunkArgumentError(fn_args.max_tokens, fn_args.overlap_tokens))>>
    /\ UNCHANGED <<ext_vars, run_vars, fn_args>>

\* words = _tokens(text.strip()); `if not words: return []`; start = 0
ChunkBegin ==
    /\ fn_args.fn = "chunk_text"
    /\ fn_result = <<>>
    /\ ~ChunkArgumentError(fn_args.max_tokens, fn_args.overlap_tokens).raised
    /\ LET words == _tokens(Strip(fn_args.text))
       IN  fn_result' = <<ChunkFrame(IF words = <<>> THEN "returned" ELSE "loop",
                                     words, 0, <<>>, NoError)>>
    /\ UNCHANGED <<ext_vars, run_vars, fn_args>>

\* Mutant: the next window starts where the last one ended
NextStart_NoOverlap(end, overlap_tokens) == end

\* start = end - overlap_tokens
NextStart(end, overlap_tokens) == end - overlap_tokens

\* `if end >= len(words): break`
LastWindow(end, n) == end >= n

\* One iteration of `while start < len(words)`, and the return after the last
ChunkWindow ==
    /\ fn_args.fn = "chunk_text"
    /\ Len(fn_result) = 1
    /\ fn_result[1].pc = "loop"
    /\ LET f == fn_result[1]
           end == Min(f.start + fn_args.max_tokens, Len(f.words))
           window == SubSeq(f.words, f.start + 1, end)
           chunk_text_value == Strip(JoinWords(window))
           chunks == IF chunk_text_value # <<>>
                     THEN Append(f.chunks, [text |-> chunk_text_value,
                                            token_count |-> Len(window)])
                     ELSE f.chunks
       IN  fn_result' =
             IF f.start >= Len(f.words)
             THEN <<ChunkFrame("returned", f.words, f.start, f.chunks, NoError)>>
             ELSE IF LastWindow(end, Len(f.words))
             THEN <<ChunkFrame("returned", f.words, f.start, chunks, NoError)>>
             ELSE <<ChunkFrame("loop", f.words, NextStart(end, fn_args.overlap_tokens),
                               chunks, NoError)>>
    /\ UNCHANGED <<ext_vars, run_vars, fn_args>>

ChunkNext ==
    \/ ChunkRejects
    \/ ChunkBegin
    \/ ChunkWindow

SpecChunk == ChunkInit /\ [][ChunkNext]_vars


-----------------------------------------------------------------------------
(* Properties of chunk_text *)

\* chunk_text has been called with 0 <= overlap_tokens < max_tokens
Chunking ==
    /\ fn_args.fn = "chunk_text"
    /\ Len(fn_result) = 1
    /\ 0 <= fn_args.overlap_tokens
    /\ fn_args.overlap_tokens < fn_args.max_tokens

\* The words of the text, the first is word 1
TextWords == _tokens(Strip(fn_args.text))

\* The first and the last word of the k-th window of the windowing
WindowFirst(k) == (k - 1) * (fn_args.max_tokens - fn_args.overlap_tokens) + 1
WindowLast(k) == Min(WindowFirst(k) + fn_args.max_tokens - 1, Len(TextWords))

\* C27: for 0 <= overlap_tokens < max_tokens chunk_text terminates and
\* returns the windowing of the words of the text: every chunk has between 1
\* and max_tokens words, the first chunk starts at the first word, every
\* later chunk starts overlap_tokens words before the end of the chunk
\* before it, and the last chunk ends at the last word.
C27_ChunksAreTheWindowing ==
    Chunking =>
        LET f == fn_result[1]
            n == Len(TextWords)
        IN  /\ f.pc \in {"loop", "returned"}
            /\ Len(f.chunks) <= n
            /\ f.pc = "loop" =>
                 /\ f.start = WindowFirst(Len(f.chunks) + 1) - 1
                 /\ f.start < n
            /\ \A k \in 1..Len(f.chunks) :
                 /\ WindowFirst(k) <= n
                 /\ f.chunks[k].text =
                      JoinWords(SubSeq(TextWords, WindowFirst(k), WindowLast(k)))
                 /\ f.chunks[k].token_count = WindowLast(k) - WindowFirst(k) + 1
                 /\ f.chunks[k].token_count >= 1
                 /\ f.chunks[k].token_count <= fn_args.max_tokens
                 /\ k < Len(f.chunks) =>
                      /\ WindowLast(k) < n
                      /\ WindowFirst(k + 1) = WindowLast(k) + 1 - fn_args.overlap_tokens
            /\ f.pc = "returned" =>
                 IF n = 0 THEN f.chunks = <<>>
                 ELSE Len(f.chunks) >= 1 /\ WindowLast(Len(f.chunks)) = n

\* Five words in windows of three with an overlap of two: three chunks
C27_Witness ==
    /\ Chunking
    /\ fn_result[1].pc = "returned"
    /\ fn_args.max_tokens = 3
    /\ fn_args.overlap_tokens = 2
    /\ Len(TextWords) = 5
    /\ Len(fn_result[1].chunks) = 3
    /\ Head(fn_args.text) = " "


-----------------------------------------------------------------------------
(* routing.py, repositories/review_queue.py: the identifiers of two inputs *)

IdInputs ==
    {[pipeline_version |-> pv, document_id |-> doc, reason |-> reason] :
        pv \in IdFields, doc \in IdFields, reason \in IdFields}

IdsInit ==
    /\ IdleRun
    /\ ExtIdle
    /\ fn_args \in {[fn |-> "deterministic_ids", a |-> a, b |-> b] :
                       a \in IdInputs, b \in IdInputs}
    /\ fn_result = <<>>

\* The run id and the review id of an input
IdsOf(x) ==
    [ocr_run_id |-> deterministic_ocr_run_id(x.pipeline_version, x.document_id),
     review_id |-> deterministic_review_id(x.pipeline_version, x.document_id, x.reason)]

\* deterministic_ocr_run_id and deterministic_review_id called for two inputs
DeriveIds ==
    /\ fn_args.fn = "deterministic_ids"
    /\ fn_result = <<>>
    /\ fn_result' = <<IdsOf(fn_args.a), IdsOf(fn_args.b)>>
    /\ UNCHANGED <<ext_vars, run_vars, fn_args>>

IdsNext == DeriveIds

SpecIds == IdsInit /\ [][IdsNext]_vars

-----------------------------------------------------------------------------
(* Properties of the deterministic identifiers *)

\* C29: two different (pipeline_version, document_id) pairs never get the
\* same ocr run id, and two different (pipeline_version, document_id, reason)
\* triples never get the same review id, whatever the fields hold, ':'
\* included.
C29_IdentifiersAreInjective ==
    (fn_args.fn = "deterministic_ids" /\ Len(fn_result) = 2) =>
        /\ (<<fn_args.a.pipeline_version, fn_args.a.document_id>>
              # <<fn_args.b.pipeline_version, fn_args.b.document_id>>)
             => fn_result[1].ocr_run_id # fn_result[2].ocr_run_id
        /\ fn_args.a # fn_args.b => fn_result[1].review_id # fn_result[2].review_id


-----------------------------------------------------------------------------
(* embedding.py: EmbeddingClient *)

MaxTexts == 3

EmbedTexts == {<<"a">>, <<"b", "b">>}

\* What the backend computes for a text
Embedding(t) == <<"embedding", t>>

\* cur_chars: the sum of len(t) over the texts of cur
RECURSIVE CharsOf(_)
CharsOf(cur) == IF cur = <<>> THEN 0 ELSE Len(Head(cur)) + CharsOf(Tail(cur))

\* self._batch(texts) from its i-th text on
RECURSIVE BatchFrom(_, _, _, _, _)
BatchFrom(texts, i, cur, max_batch_texts, max_batch_chars) ==
    IF i > Len(texts) THEN (IF cur # <<>> THEN <<cur>> ELSE <<>>)
    ELSE LET cur_chars == CharsOf(cur)
             would_exceed ==
                 /\ cur # <<>>
                 /\ \/ Len(cur) + 1 > max_batch_texts
                    \/ cur_chars + Len(texts[i]) > max_batch_chars
         IN  IF would_exceed
             THEN <<cur>> \o BatchFrom(texts, i + 1, <<texts[i]>>,
                                       max_batch_texts, max_batch_chars)
             ELSE BatchFrom(texts, i + 1, Append(cur, texts[i]),
                            max_batch_texts, max_batch_chars)

\* The checks of _batch, the first that fails
BatchConfigError(c) ==
    IF c.max_batch_texts <= 0 THEN Raise("ValueError", "max_batch_texts must be > 0", NoRequest)
    ELSE IF c.max_batch_chars <= 0
    THEN Raise("ValueError", "max_batch_chars must be > 0", NoRequest)
    ELSE IF c.timeout_s <= 0 THEN Raise("ValueError", "timeout_s must be > 0", NoRequest)
    ELSE IF c.max_retries < 0 THEN Raise("ValueError", "max_retries must be >= 0", NoRequest)
    ELSE IF c.retry_backoff_s < 0
    THEN Raise("ValueError", "retry_backoff_s must be >= 0", NoRequest)
    ELSE NoError

_batch(c, texts) == BatchFrom(texts, 1, <<>>, c.max_batch_texts, c.max_batch_chars)

EmbedConfigs ==
    {[max_batch_texts |-> n, max_batch_chars |-> k, timeout_s |-> s,
      max_retries |-> r, retry_backoff_s |-> b] :
        n \in 0..2, k \in {0, 2, 4}, s \in {0, 120}, r \in -1..1, b \in {-1, 1}}

EmbedInit ==
    /\ IdleRun
    /\ fn_args = NoCall
    /\ fn_result = <<>>
    /\ render = Idle
    /\ db = Idle
    /\ vpn = Idle
    /\ \E c \in EmbedConfigs, n \in 0..MaxTexts :
         \E texts \in [1..n -> EmbedTexts] :
             embed = [pc |-> "start", cfg |-> c, texts |-> texts, pending |-> <<>>,
                      attempt |-> 0, sent |-> 0, embeddings |-> <<>>,
                      result |-> NoResult, error |-> NoError]

EmbedStep(e) ==
    /\ embed' = e
    /\ UNCHANGED <<run_vars, fn_args, fn_result, render, db, vpn>>

\* `if not texts: return []`
EmbedNothing ==
    /\ embed.pc = "start"
    /\ embed.texts = <<>>
    /\ EmbedStep([embed EXCEPT !.pc = "returned", !.result = Return(<<>>)])

\* self._batch(texts) raises ValueError for the client's settings
EmbedRejects ==
    /\ embed.pc = "start"
    /\ embed.texts # <<>>
    /\ BatchConfigError(embed.cfg).raised
    /\ EmbedStep([embed EXCEPT !.pc = "raised", !.error = BatchConfigError(embed.cfg)])

\* `for batch in self._batch(texts)`: the batches yet to embed, the first of
\* them entering _embed_batch with attempt = 0
EmbedStart ==
    /\ embed.pc = "start"
    /\ embed.texts # <<>>
    /\ ~BatchConfigError(embed.cfg).raised
    /\ EmbedStep([embed EXCEPT !.pc = "send", !.pending = _batch(embed.cfg, embed.texts),
                               !.attempt = 0, !.sent = 0])

\* The data of a response to a batch: one embedding per input in order, or
\* a list that lacks the last of them, or one that repeats it
ResponseData(batch, shape) ==
    LET data == [i \in 1..Len(batch) |-> Embedding(batch[i])]
    IN  CASE shape = "exact" -> data
          [] shape = "short" -> SubSeq(data, 1, Len(data) - 1)
          [] shape = "long" -> Append(data, data[Len(data)])

\* What follows the end of one _embed_batch: the next batch, or the end of
\* the loop over the batches
AfterBatch(e) ==
    IF Len(e.pending) > 1
    THEN [e EXCEPT !.pending = Tail(@), !.attempt = 0, !.sent = 0]
    ELSE [e EXCEPT !.pending = <<>>, !.pc = "check"]

\* client.post answers 2xx: `return [item["embedding"] for item in data]`
EmbedBatchReturns ==
    /\ embed.pc = "send"
    /\ \E shape \in {"exact", "short", "long"} :
         EmbedStep(AfterBatch([embed EXCEPT
             !.sent = @ + 1,
             !.embeddings = @ \o ResponseData(embed.pending[1], shape)]))

\* `if attempt >= self.max_retries: raise`, negated
RetriesLeft(attempt, max_retries) == attempt < max_retries

\* client.post raises httpx.TimeoutException or httpx.TransportError
EmbedBatchTimesOut ==
    /\ embed.pc = "send"
    /\ EmbedStep(IF RetriesLeft(embed.attempt, embed.cfg.max_retries)
                 THEN [embed EXCEPT !.sent = @ + 1, !.attempt = @ + 1]
                 ELSE [embed EXCEPT !.sent = @ + 1, !.pc = "raised",
                          !.error = Raise("TimeoutException", "timed out", NoRequest)])

\* raise_for_status raises for a 413: the batch is halved, or RuntimeError
EmbedBatchTooLarge ==
    /\ embed.pc = "send"
    /\ LET batch == embed.pending[1]
           mid == Len(batch) \div 2
       IN  EmbedStep(
             IF Len(batch) = 1
             THEN [embed EXCEPT !.sent = @ + 1, !.pc = "raised",
                      !.error = Raise("RuntimeError",
                                      "Embedding request too large (413) for a single chunk",
                                      NoRequest)]
             ELSE [embed EXCEPT !.attempt = 0, !.sent = 0,
                      !.pending = <<SubSeq(batch, 1, mid), SubSeq(batch, mid + 1, Len(batch))>>
                                  \o Tail(@)])

\* raise_for_status raises for another status: `raise`
EmbedBatchFails ==
    /\ embed.pc = "send"
    /\ EmbedStep([embed EXCEPT !.sent = @ + 1, !.pc = "raised",
                     !.error = Raise("HTTPStatusError", "500", NoRequest)])

\* `if len(embeddings) != len(texts): raise RuntimeError(...)`, `return embeddings`
EmbedCheck ==
    /\ embed.pc = "check"
    /\ EmbedStep(IF Len(embed.embeddings) # Len(embed.texts)
                 THEN [embed EXCEPT !.pc = "raised",
                          !.error = Raise("RuntimeError", "Embedding count mismatch", NoRequest)]
                 ELSE [embed EXCEPT !.pc = "returned", !.result = Return(embed.embeddings)])

EmbedNext ==
    \/ EmbedNothing
    \/ EmbedRejects
    \/ EmbedStart
    \/ EmbedBatchReturns
    \/ EmbedBatchTimesOut
    \/ EmbedBatchTooLarge
    \/ EmbedBatchFails
    \/ EmbedCheck

SpecEmbed == EmbedInit /\ [][EmbedNext]_vars

-----------------------------------------------------------------------------
(* Properties of EmbeddingClient.embed_texts *)

\* C30: a batch request that keeps failing with a timeout or a transport
\* error is sent max_retries + 1 times and then the error leaves embed_texts;
\* when embed_texts returns it returns one embedding per text, in the order
\* of the texts, never a shorter or a longer list.
C30_RetriesThenEmbeddingsInOrder ==
    embed.pc # "idle" =>
        /\ (embed.pc = "raised" /\ embed.error.type = "TimeoutException")
              => embed.sent = embed.cfg.max_retries + 1
        /\ embed.pc = "send" => embed.sent <= embed.cfg.max_retries
        /\ embed.pc = "returned" =>
             /\ Len(embed.result.value) = Len(embed.texts)
             /\ embed.result.value = [i \in 1..Len(embed.texts) |-> Embedding(embed.texts[i])]

====================================================================
